---- MODULE Spec2Model ----
(***************************************************************************)
(* USB file transfer tracker: the per-device event reconciler             *)
(* (core/file_watcher.py, USBFileEventHandler) and the device registry    *)
(* with its poller (core/usb_monitor.py, USBMonitor), the FileWatcher     *)
(* that binds reconcilers to devices, the policy evaluator called on its  *)
(* own, and the secure log file (utils/logger.py, SecureFileHandler).     *)
(*                                                                         *)
(* Time is counted in whole seconds.  Strings that the code inspects      *)
(* character by character (file names, extensions, patterns) are          *)
(* sequences of one-character strings.                                     *)
(***************************************************************************)
EXTENDS Integers, Sequences, FiniteSets, TLC

\* ------------------------------------------------------------------
\* Bounds of the model
\* ------------------------------------------------------------------
\* Raw filesystem notifications the environment produces in one run.
MaxEvents == 2
\* Last instant of the clock.
MaxTime == 4
\* pyudev events that can wait to be polled.
MaxPending == 2
\* Subscribers registered with the registry.
NumSubs == 2
\* Records appended to a log file in one run.
MaxAppends == 3
\* Calls of a read accessor of the registry in one run.
MaxReads == 1
\* Changes made to a log file behind the handler's back in one run.
MaxTampers == 1
\* maxBytes and backupCount of the handler, scaled down to the short
\* records of the model.
MaxBytes == 5
BackupCount == 1

\* ------------------------------------------------------------------
\* Program constants
\* ------------------------------------------------------------------
\* self.op_completion_time = 1.0
OpCompletionTime == 1
\* 1024 * 1024, bytes per megabyte
MB == 1048576

\* ------------------------------------------------------------------
\* Text helpers
\* ------------------------------------------------------------------
\* str.lower() on the characters the model uses.
LowerChar(c) ==
    CASE c = "D" -> "d"
      [] c = "O" -> "o"
      [] c = "C" -> "c"
      [] c = "X" -> "x"
      [] c = "T" -> "t"
      [] c = "M" -> "m"
      [] c = "P" -> "p"
      [] OTHER -> c

\* (Variant: the extension is compared as it is spelled.)
LowerIdentity(s) == s

Lower(s) == [i \in 1..Len(s) |-> LowerChar(s[i])]

\* str.endswith
EndsWith(s, suf) ==
    /\ Len(suf) <= Len(s)
    /\ SubSeq(s, Len(s) - Len(suf) + 1, Len(s)) = suf

\* fnmatch.fnmatch(s, pat) on a POSIX host, for patterns built from
\* literals, "?" and "*".
RECURSIVE FnMatch(_, _)
FnMatch(s, pat) ==
    IF pat = <<>> THEN s = <<>>
    ELSE IF Head(pat) = "*"
         THEN \E k \in 0..Len(s) : FnMatch(SubSeq(s, k + 1, Len(s)), Tail(pat))
         ELSE /\ s # <<>>
              /\ (Head(pat) = "?" \/ Head(pat) = Head(s))
              /\ FnMatch(Tail(s), Tail(pat))

\* Index of the last "." of a name, 0 when there is none.
RECURSIVE LastDot(_, _)
LastDot(name, i) ==
    IF i = 0 THEN 0
    ELSE IF name[i] = "." THEN i ELSE LastDot(name, i - 1)

\* Number of leading "." characters of a name.
RECURSIVE LeadingDots(_, _)
LeadingDots(name, i) ==
    IF i > Len(name) \/ name[i] # "." THEN i - 1 ELSE LeadingDots(name, i + 1)

\* os.path.splitext(path)[1]: the extension of the last component, taken
\* from its last dot; leading dots of the name do not start an extension.
SplitExt(path) ==
    LET name == path[Len(path)]
        d == LastDot(name, Len(name))
    IN  IF d = 0 \/ d <= LeadingDots(name, 1) THEN <<>>
        ELSE SubSeq(name, d, Len(name))

\* Length of the longest common prefix of two component lists.
RECURSIVE CommonPrefix(_, _)
CommonPrefix(a, b) ==
    IF a = <<>> \/ b = <<>> \/ Head(a) # Head(b) THEN 0
    ELSE 1 + CommonPrefix(Tail(a), Tail(b))

\* os.path.relpath(path, start) on component lists.
RelPath(path, start) ==
    LET c == CommonPrefix(path, start)
    IN  [i \in 1..(Len(start) - c) |-> <<".", ".">>] \o SubSeq(path, c + 1, Len(path))

\* x in list
InList(x, l) == \E i \in 1..Len(l) : l[i] = x

\* "HH:MM" -> int(s.split(":")[0])
DigitVal(c) ==
    CASE c = "0" -> 0 [] c = "1" -> 1 [] c = "2" -> 2 [] c = "3" -> 3 [] c = "4" -> 4
      [] c = "5" -> 5 [] c = "6" -> 6 [] c = "7" -> 7 [] c = "8" -> 8 [] c = "9" -> 9

RECURSIVE ParseHour(_, _)
ParseHour(s, acc) ==
    IF s = <<>> \/ Head(s) = ":" THEN acc
    ELSE ParseHour(Tail(s), 10 * acc + DigitVal(Head(s)))

\* ------------------------------------------------------------------
\* Data of the modelled session
\* ------------------------------------------------------------------
\* The device whose mount point the modelled reconciler watches, and the
\* other partitions the host can see.  DevA2 is a second partition of the
\* stick of DevA: same ID_SERIAL, hence the same device_id.
DevA == [device_id |-> "A", name |-> "D1", mount_point |-> << <<"m">>, <<"a">> >>]
DevB == [device_id |-> "B", name |-> "D2", mount_point |-> << <<"m">>, <<"b">> >>]
DevA2 == [device_id |-> "A", name |-> "D1", mount_point |-> << <<"m">>, <<"c">> >>]

\* Absolute paths on the watched device, as component lists, by identifier.
PathOf(p) ==
    CASE p = "f1" -> << <<"m">>, <<"a">>, <<"r", ".", "D", "O", "C", "X">> >>
      [] p = "f2" -> << <<"m">>, <<"a">>, <<"s">>, <<"a", ".", "t", "m", "p">> >>

Paths == {"f1", "f2"}

\* Sizes in bytes a file can have.
FileSizes == {500, 2 * MB}

\* Size os.path.getsize reports for a directory.
DirSizes == {4096}

\* getpass.getuser()
UserName == "user"

ExtDocx == <<".", "d", "o", "c", "x">>
ExtZip == <<".", "z", "i", "p">>
ExtTmp == <<".", "t", "m", "p">>
ExtTemp == <<".", "t", "e", "m", "p">>
ExtLock == <<".", "l", "o", "c", "k">>

\* The policy of the modelled session: the defaults of utils/config.py with
\* a minimum size of 1000 bytes and a suspicious threshold of 1 MB.
\* max_file_size_bytes = 0 stands for None.
ConfigSession ==
    [min_file_size_bytes |-> 1000,
     max_file_size_bytes |-> 0,
     include_file_extensions |-> << <<"*">> >>,
     exclude_file_extensions |-> <<ExtTmp, ExtTemp, ExtLock>>,
     alert_threshold_mb |-> 1,
     suspicious_extensions |-> <<ExtZip, ExtDocx>>,
     large_transfer_alert |-> TRUE,
     large_transfer_threshold_mb |-> 500,
     tba_enabled |-> TRUE,
     restricted_start |-> <<"1", "8", ":", "0", "0">>,
     restricted_end |-> <<"0", "7", ":", "0", "0">>,
     weekend_alerts |-> TRUE]

Configs == {ConfigSession}

\* datetime.now() of the session: hour and weekday (0 = Monday).
WallClocks == {[hour |-> 20, weekday |-> 2]}

\* ------------------------------------------------------------------
\* Policy evaluator
\* ------------------------------------------------------------------
\* A pattern of the include/exclude lists matches an extension.
PatternMatches(ext, pattern) == EndsWith(ext, pattern) \/ FnMatch(ext, pattern)

\* (Variant: a file whose size cannot be read is not monitored.)
ShouldMonitorFileFailClosed(cfg, path, f, sizeOk) ==
    LET ext == Lower(SplitExt(path))
        inc == cfg.include_file_extensions
        exc == cfg.exclude_file_extensions
    IN  IF f.kind # "file" \/ ~sizeOk THEN FALSE
        ELSE IF cfg.min_file_size_bytes > 0 /\ f.size < cfg.min_file_size_bytes
             THEN FALSE
        ELSE IF cfg.max_file_size_bytes # 0 /\ f.size > cfg.max_file_size_bytes
             THEN FALSE
        ELSE IF Len(inc) = 1 /\ inc[1] = <<"*">>
             THEN ~InList(ext, exc)
        ELSE /\ \E i \in 1..Len(inc) : PatternMatches(ext, inc[i])
             /\ ~\E i \in 1..Len(exc) : PatternMatches(ext, exc[i])

\* (Variant: with include ["*"] every file is monitored, the exclude list
\* is not consulted.)
ShouldMonitorFileAll(cfg, path, f, sizeOk) ==
    LET ext == Lower(SplitExt(path))
        inc == cfg.include_file_extensions
        exc == cfg.exclude_file_extensions
    IN  IF f.kind # "file" THEN FALSE
        ELSE IF sizeOk /\ cfg.min_file_size_bytes > 0 /\ f.size < cfg.min_file_size_bytes
             THEN FALSE
        ELSE IF sizeOk /\ cfg.max_file_size_bytes # 0 /\ f.size > cfg.max_file_size_bytes
             THEN FALSE
        ELSE IF Len(inc) = 1 /\ inc[1] = <<"*">>
             THEN TRUE
        ELSE /\ \E i \in 1..Len(inc) : PatternMatches(ext, inc[i])
             /\ ~\E i \in 1..Len(exc) : PatternMatches(ext, exc[i])

\* (Variant: the size bounds are exclusive.)
ShouldMonitorFileExclusive(cfg, path, f, sizeOk) ==
    LET ext == Lower(SplitExt(path))
        inc == cfg.include_file_extensions
        exc == cfg.exclude_file_extensions
    IN  IF f.kind # "file" THEN FALSE
        ELSE IF sizeOk /\ cfg.min_file_size_bytes > 0 /\ f.size <= cfg.min_file_size_bytes
             THEN FALSE
        ELSE IF sizeOk /\ cfg.max_file_size_bytes # 0 /\ f.size >= cfg.max_file_size_bytes
             THEN FALSE
        ELSE IF Len(inc) = 1 /\ inc[1] = <<"*">>
             THEN ~InList(ext, exc)
        ELSE /\ \E i \in 1..Len(inc) : PatternMatches(ext, inc[i])
             /\ ~\E i \in 1..Len(exc) : PatternMatches(ext, exc[i])

\* USBFileEventHandler._should_monitor_file.  f is the state of the path:
\* kind is "none", "file" or "dir"; sizeOk is FALSE when os.path.getsize
\* raises.
ShouldMonitorFile(cfg, path, f, sizeOk) ==
    LET ext == Lower(SplitExt(path))
        inc == cfg.include_file_extensions
        exc == cfg.exclude_file_extensions
    IN  IF f.kind # "file" THEN FALSE
        ELSE IF sizeOk /\ cfg.min_file_size_bytes > 0 /\ f.size < cfg.min_file_size_bytes
             THEN FALSE
        ELSE IF sizeOk /\ cfg.max_file_size_bytes # 0 /\ f.size > cfg.max_file_size_bytes
             THEN FALSE
        ELSE IF Len(inc) = 1 /\ inc[1] = <<"*">>
             THEN ~InList(ext, exc)
        ELSE /\ \E i \in 1..Len(inc) : PatternMatches(ext, inc[i])
             /\ ~\E i \in 1..Len(exc) : PatternMatches(ext, exc[i])

\* (Variant: a size that cannot be read counts as under the threshold.)
IsSuspiciousFileFailOpen(cfg, path, f, sizeOk) ==
    LET ext == Lower(SplitExt(path))
    IN  /\ InList(ext, cfg.suspicious_extensions)
        /\ IF f.kind = "none" \/ ~sizeOk THEN FALSE
           ELSE f.size > cfg.alert_threshold_mb * MB

\* USBFileEventHandler._is_suspicious_file: os.path.getsize raises when the
\* path does not exist; sizeOk is FALSE when it raises for an existing path.
IsSuspiciousFile(cfg, path, f, sizeOk) ==
    LET ext == Lower(SplitExt(path))
    IN  /\ InList(ext, cfg.suspicious_extensions)
        /\ IF f.kind = "none" \/ ~sizeOk THEN TRUE
           ELSE f.size > cfg.alert_threshold_mb * MB

\* (Variant: the restricted hours are never read as passing midnight.)
CheckTimeBasedAlertsNoWrap(cfg, clock) ==
    LET start_hour == ParseHour(cfg.restricted_start, 0)
        end_hour == ParseHour(cfg.restricted_end, 0)
        is_weekend == clock.weekday >= 5
    IN  IF ~cfg.tba_enabled THEN FALSE
        ELSE IF is_weekend /\ cfg.weekend_alerts THEN TRUE
        ELSE clock.hour >= start_hour /\ clock.hour < end_hour

\* USBFileEventHandler._check_time_based_alerts
CheckTimeBasedAlerts(cfg, clock) ==
    LET start_hour == ParseHour(cfg.restricted_start, 0)
        end_hour == ParseHour(cfg.restricted_end, 0)
        is_weekend == clock.weekday >= 5
    IN  IF ~cfg.tba_enabled THEN FALSE
        ELSE IF is_weekend /\ cfg.weekend_alerts THEN TRUE
        ELSE IF start_hour > end_hour
             THEN clock.hour >= start_hour \/ clock.hour < end_hour
        ELSE clock.hour >= start_hour /\ clock.hour < end_hour

\* One line of output.  type is "LARGE", "SUSPICIOUS", "AFTERHOURS" (warnings
\* of the application log) or "TRANSFER" (a record of the transfer log).
\* final and ghost are bookkeeping of the model: the pass that wrote the
\* line and the in-flight entry it was written for.
Line(type, operation, device, rel, size, ext, final, ghost) ==
    [type |-> type, operation |-> operation, device |-> device.name,
     file_path |-> rel, file_size |-> size, file_type |-> ext,
     user |-> UserName, final |-> final, ghost |-> ghost]

\* (Variant: a size equal to the large-transfer threshold is reported too.)
LogFileOperationLargeAtThreshold(cfg, clock, device, operation, path, f, final, ghost) ==
    LET relative_path == RelPath(path, device.mount_point)
        file_size == IF f.kind # "none" THEN f.size ELSE 0
        file_type == Lower(SplitExt(path))
        L(type) == Line(type, operation, device, relative_path, file_size, file_type, final, ghost)
    IN  (IF cfg.large_transfer_alert /\ file_size >= cfg.large_transfer_threshold_mb * MB
         THEN <<L("LARGE")>> ELSE <<>>)
        \o (IF IsSuspiciousFile(cfg, path, f, TRUE) THEN <<L("SUSPICIOUS")>> ELSE <<>>)
        \o (IF CheckTimeBasedAlerts(cfg, clock) THEN <<L("AFTERHOURS")>> ELSE <<>>)
        \o (IF final THEN <<L("TRANSFER")>> ELSE <<>>)

\* (Variant: the checks are alternatives, the first that holds is reported.)
LogFileOperationFirstAlert(cfg, clock, device, operation, path, f, final, ghost) ==
    LET relative_path == RelPath(path, device.mount_point)
        file_size == IF f.kind # "none" THEN f.size ELSE 0
        file_type == Lower(SplitExt(path))
        L(type) == Line(type, operation, device, relative_path, file_size, file_type, final, ghost)
    IN  (IF cfg.large_transfer_alert /\ file_size > cfg.large_transfer_threshold_mb * MB
         THEN <<L("LARGE")>>
         ELSE IF IsSuspiciousFile(cfg, path, f, TRUE) THEN <<L("SUSPICIOUS")>>
         ELSE IF CheckTimeBasedAlerts(cfg, clock) THEN <<L("AFTERHOURS")>>
         ELSE <<>>)
        \o (IF final THEN <<L("TRANSFER")>> ELSE <<>>)

\* USBFileEventHandler._log_file_operation: the lines one pass emits, in order.
LogFileOperation(cfg, clock, device, operation, path, f, final, ghost) ==
    LET relative_path == RelPath(path, device.mount_point)
        file_size == IF f.kind # "none" THEN f.size ELSE 0
        file_type == Lower(SplitExt(path))
        L(type) == Line(type, operation, device, relative_path, file_size, file_type, final, ghost)
    IN  (IF cfg.large_transfer_alert /\ file_size > cfg.large_transfer_threshold_mb * MB
         THEN <<L("LARGE")>> ELSE <<>>)
        \o (IF IsSuspiciousFile(cfg, path, f, TRUE) THEN <<L("SUSPICIOUS")>> ELSE <<>>)
        \o (IF CheckTimeBasedAlerts(cfg, clock) THEN <<L("AFTERHOURS")>> ELSE <<>>)
        \o (IF final THEN <<L("TRANSFER")>> ELSE <<>>)

\* ------------------------------------------------------------------
\* State
\* ------------------------------------------------------------------
VARIABLES
    \* --- environment of one reconciler
    config,        \* the Config object of the session, shared with the settings dialog
    wall,          \* datetime.now(): hour and weekday
    now,           \* time.time(), in seconds
    fs,            \* the watched tree: path -> [kind, size]
    queue,         \* notifications the observer has not dispatched yet
    budget,        \* changes of the tree the environment still makes
    \* --- USBFileEventHandler
    in_progress,   \* self._in_progress, in insertion order
    opsLock,       \* holder of self._operations_lock: "free", "ingest", "sweep"
    hStop,         \* self.stop_event
    obsStopped,    \* observer.stop() was called
    ipc,           \* observer thread: "idle", "isfile", "getsize", "record", "log",
                   \* "crashed"
    cur,           \* the (operation, path) the observer thread is handling, and
                   \* the paths its handler tries if this one is refused
    ipass,         \* observer thread: position in _log_file_operation, file_size
    spc,           \* finalizer thread: "loop", "lock", "select", "finalize", "done",
                   \* "except", "crashed"
    current_time,  \* local of _finalize_operations (0 between two passes)
    to_finalize,   \* local of _finalize_operations: the batch not processed yet
    spass,         \* finalizer thread: position in _log_file_operation, file_size
    log,           \* every line written: warnings and transfer records
    hist           \* every notification dispatched to the handler, in order

rvars == <<config, wall, now, fs, queue, budget, in_progress, opsLock, hStop,
           obsStopped, ipc, cur, ipass, spc, current_time, to_finalize, spass, log, hist>>

VARIABLES
    \* --- environment of the registry
    platform,      \* platform.system()
    attached,      \* partitions plugged in and mounted
    udevq,         \* pyudev events not polled yet
    stop_event,    \* main.stop_event
    \* --- USBMonitor
    connected_devices,  \* self.connected_devices, in insertion order
    regLock,       \* holder of self._lock: "free" or "monitor"
    mpc,           \* position of the USBMonitorThread; "exited" once the
                   \* monitoring function has returned, "crashed" once an
                   \* exception has left start_monitoring
    current_devices,    \* local: the list the last detection returned
    rem_keys,      \* local: rest of list(self.connected_devices.keys())
    add_rest,      \* local: rest of current_devices in the add loop
    trig,          \* the notification being dispatched: [kind, device, i, ret]
    ev,            \* local: the pyudev event being processed
    \* --- bookkeeping of the model
    detectFailed,  \* the last detection hit its except branch
    cycleC,        \* connected_devices when the current cycle began
    cycleNotifs,   \* callbacks invoked in the current cycle, in order
    cycleRaised,   \* the subscribers whose callback raised in the current cycle
    prevD          \* ids detected by the previous polling cycle, as a
                   \* one-element list; <<>> before the first cycle

mvars == <<platform, attached, udevq, stop_event, connected_devices, regLock,
           mpc, current_devices, rem_keys, add_rest, trig, ev, detectFailed, cycleC,
           cycleNotifs, cycleRaised, prevD>>

VARIABLES
    \* --- FileWatcher
    handlers,      \* keys of self.handlers and self.observers (device_ids)
    leaked,        \* device_ids with a running reconciler (or finalizer thread) no dict entry refers to
    wpc,           \* position of the FileWatcherThread; "done" once stop_monitoring
                   \* has returned, "crashed" once an exception has ended the thread
    wrest          \* local: rest of "for device in get_connected_devices()"

wvars == <<handlers, leaked, wpc, wrest>>

VARIABLES
    \* --- one call of a method of the policy evaluator
    call,          \* the method and the values it reads
    returned,      \* the call has returned
    result,        \* its return value
    emitted        \* the lines the call has written, in order

pvars == <<call, returned, result, emitted>>

VARIABLES
    \* --- SecureFileHandler and its files
    lfile,         \* content of the log file (self.baseFilename), a byte string
    lbackups,      \* contents of the rotated files, newest first
    lhash,         \* the file <log>.hash: present or not, and the digest in it
    current_hash,  \* self.current_hash, 0 before the first _save_hash
    sealed,        \* content of the log file when _save_hash last read it
    nAppends,      \* records handed to the handler so far
    nTampers,      \* changes made to the log file behind the handler's back
    \* --- the thread of the log viewer that runs verify_log_integrity
    vpc,           \* its position: "idle", "read_hash", "read_log"
    saved_hash,    \* its local saved_hash, 0 outside a call
    verdict,       \* what its last call returned; "none" during a call and
                   \* once a file has changed since
    overlapped     \* a logging call was under way at some moment of its
                   \* running or last call

lvars == <<lfile, lbackups, lhash, current_hash, sealed, nAppends, nTampers,
           vpc, saved_hash, verdict, overlapped>>

VARIABLES
    \* --- threads that log to one SecureFileHandler
    hlock,         \* owner of the handler's lock (Handler.acquire), or "free"
    tpc,           \* position of each logging thread
    tmsg,          \* the formatted record each thread is logging
    wbuf,          \* bytes written to the stream and not yet flushed
    written,       \* the records written to the stream, in order
    tsnap          \* per thread: content of the log file after its flush

cvars == <<hlock, tpc, tmsg, wbuf, written, tsnap>>

VARIABLES
    \* --- a thread that calls the registry's read accessors
    snapshot,      \* what get_connected_devices returned to it
    nReads         \* calls made so far

avars == <<snapshot, nReads>>

\* The state outside the reconciler and the registry.
VARIABLES
    \* --- bookkeeping of the model, for one reconciler
    nRemoved       \* entries the sweep has deleted from self._in_progress

gvars == <<nRemoved>>

xvars == <<wvars, pvars, lvars, cvars, avars, gvars>>

vars == <<rvars, mvars, xvars>>

NoFile == [kind |-> "none", size |-> 0]
NoTarget == [op |-> "none", path |-> "none", rest |-> <<>>]

\* Last instant at which the environment still produces notifications: an
\* entry recorded then can still outlive the completion threshold.
Horizon == MaxTime - OpCompletionTime - 1

\* The files on the device when its handler is created: none, or one
\* eligible file.
EmptyTree == [p \in Paths |-> NoFile]
LoadedTree == [EmptyTree EXCEPT !["f1"] = [kind |-> "file", size |-> 2 * MB]]

\* USBFileEventHandler.__init__ on a device holding the files of tree, in
\* an environment that makes n changes to the tree.
RStart(tree, n) ==
    /\ config \in Configs
    /\ wall \in WallClocks
    /\ now = 0
    /\ fs = tree
    /\ queue = <<>>
    /\ budget = n
    /\ in_progress = <<>>
    /\ opsLock = "free"
    /\ hStop = FALSE
    /\ obsStopped = FALSE
    /\ ipc = "idle"
    /\ cur = NoTarget
    /\ ipass = [pc |-> "off", file_size |-> 0]
    /\ spc = "loop"
    /\ current_time = 0
    /\ to_finalize = <<>>
    /\ spass = [pc |-> "off", file_size |-> 0]
    /\ log = <<>>
    /\ hist = <<>>
    /\ nRemoved = 0

RInit == RStart(EmptyTree, MaxEvents)

\* ------------------------------------------------------------------
\* Environment: the filesystem, the clock and the settings dialog
\* ------------------------------------------------------------------
Event(type, src, dest, isdir) ==
    [type |-> type, src_path |-> src, dest_path |-> dest, is_directory |-> isdir]

\* A change of the tree.  The watch queues its notification until the
\* observer is stopped; the environment makes budget changes at most.
Notify(e) ==
    /\ budget > 0
    /\ now <= Horizon
    /\ queue' = IF obsStopped THEN queue ELSE Append(queue, e)
    /\ budget' = budget - 1

EnvUnchanged == UNCHANGED <<config, wall, now, in_progress, opsLock, hStop, obsStopped,
                            ipc, cur, ipass, spc, current_time, to_finalize, spass,
                            log, hist, mvars, xvars>>

FsCreate(p, s) ==
    /\ fs[p].kind = "none"
    /\ fs' = [fs EXCEPT ![p] = [kind |-> "file", size |-> s]]
    /\ Notify(Event("created", p, "none", FALSE))
    /\ EnvUnchanged

FsMkdir(p, s) ==
    /\ fs[p].kind = "none"
    /\ fs' = [fs EXCEPT ![p] = [kind |-> "dir", size |-> s]]
    /\ Notify(Event("created", p, "none", TRUE))
    /\ EnvUnchanged

FsWrite(p, s) ==
    /\ fs[p].kind = "file"
    /\ fs' = [fs EXCEPT ![p] = [kind |-> "file", size |-> s]]
    /\ Notify(Event("modified", p, "none", FALSE))
    /\ EnvUnchanged

FsDelete(p) ==
    /\ fs[p].kind # "none"
    /\ fs' = [fs EXCEPT ![p] = NoFile]
    /\ Notify(Event("deleted", p, "none", fs[p].kind = "dir"))
    /\ EnvUnchanged

\* A rename inside the watched tree.
FsMove(p, q) ==
    /\ p # q
    /\ fs[p].kind # "none"
    /\ fs[q].kind = "none"
    /\ fs' = [fs EXCEPT ![p] = NoFile, ![q] = fs[p]]
    /\ Notify(Event("moved", p, q, fs[p].kind = "dir"))
    /\ EnvUnchanged

\* A rename out of the watched tree, notified without a destination.
FsMoveOut(p) ==
    /\ fs[p].kind # "none"
    /\ fs' = [fs EXCEPT ![p] = NoFile]
    /\ Notify(Event("moved", p, "none", fs[p].kind = "dir"))
    /\ EnvUnchanged

\* The clock advances.  At the horizon it waits for the notifications
\* already produced to be handled, so that every recorded entry can age.
Tick ==
    /\ now < MaxTime
    /\ now < Horizon \/ (queue = <<>> /\ ipc = "idle") \/ obsStopped
    /\ now' = now + 1
    /\ UNCHANGED <<config, wall, fs, queue, budget, in_progress, opsLock, hStop,
                   obsStopped, ipc, cur, ipass, spc, current_time, to_finalize, spass,
                   log, hist, mvars, xvars>>

\* The values of the settings dialog when Save is pressed: the minimum size
\* was edited.
ConfigEdited == [ConfigSession EXCEPT !.min_file_size_bytes = 0]

\* The fields SettingsDialog._save_settings assigns, in the order of its
\* assignments; restricted_hours is assigned as one dict.
SavedFields ==
    << {"include_file_extensions"}, {"exclude_file_extensions"},
       {"min_file_size_bytes"}, {"max_file_size_bytes"},
       {"alert_threshold_mb"}, {"suspicious_extensions"},
       {"large_transfer_alert"}, {"large_transfer_threshold_mb"},
       {"tba_enabled"}, {"restricted_start", "restricted_end"},
       {"weekend_alerts"} >>

\* The config object after the k-th assignment group took its edited value.
Assigned(cfg, k) ==
    [f \in DOMAIN cfg |-> IF f \in SavedFields[k] THEN ConfigEdited[f] ELSE cfg[f]]

\* SettingsDialog._save_settings, opened from the tray menu while the
\* handlers run: the fields of the config object the handlers read are
\* assigned one after the other, without a lock.  One step runs the
\* assignments up to and including the next one that changes a value.
SaveSettings ==
    /\ config # ConfigEdited
    /\ LET k == CHOOSE i \in 1..Len(SavedFields) :
                   /\ Assigned(config, i) # config
                   /\ \A j \in 1..(i - 1) : Assigned(config, j) = config
       IN  config' = Assigned(config, k)
    /\ UNCHANGED <<wall, now, fs, queue, budget, in_progress, opsLock, hStop,
                   obsStopped, ipc, cur, ipass, spc, current_time, to_finalize, spass,
                   log, hist, mvars, xvars>>

\* ------------------------------------------------------------------
\* USBFileEventHandler._log_file_operation, one access at a time
\* ------------------------------------------------------------------
\* A pass of _log_file_operation reads the tree and writes its lines one
\* call after the other; pc is its position, file_size its local:
\*   "exists"       os.path.exists(path)                        (line 145)
\*   "getsize"      os.path.getsize(path)                       (line 145)
\*   "wlarge"       logger.warning, large transfer              (line 154)
\*   "suspicious"   self._is_suspicious_file(path)              (line 160)
\*   "wsuspicious"  logger.warning, suspicious file             (line 162)
\*   "wafterhours"  logger.warning, after-hours activity        (line 169)
\*   "wtransfer"    log_file_transfer                           (line 176)
\*   "werror"       logger.error of the except branch           (line 186)
\*   "off"          no pass is running
NoPass == [pc |-> "off", file_size |-> 0]
PassEntry == [pc |-> "exists", file_size |-> 0]

\* The calls of a pass that write a line of an alert or a record.
WritePcs == {"wlarge", "wsuspicious", "wafterhours", "wtransfer"}

\* Lines 149-157: once file_size is known, the large-transfer check.
AfterSize(cfg, size) ==
    IF cfg.large_transfer_alert /\ size > cfg.large_transfer_threshold_mb * MB
    THEN "wlarge" ELSE "suspicious"

\* (Variant: the transfer record is written whatever final is.)
AfterAlertsAlwaysRecord(final) == "wtransfer"

\* Lines 174-175: if final, the transfer record is written.
AfterAlerts(final) == IF final THEN "wtransfer" ELSE "off"

\* Lines 167-168: the time-based check, after the suspicious-file check.
AfterSuspicious(cfg, clock, final) ==
    IF CheckTimeBasedAlerts(cfg, clock) THEN "wafterhours" ELSE AfterAlerts(final)

\* The line logger.error writes in the except branch of a pass.
ErrorLine(operation, path, final, ghost) ==
    Line("ERROR", operation, DevA, RelPath(path, DevA.mount_point), 0,
         Lower(SplitExt(path)), final, ghost)

\* One step of a pass at position ps: f is the state of the path when the
\* step reads it.  next is the position after the step, out the line it
\* wrote, if any.
PassStep(ps, cfg, clock, f, operation, path, final, ghost) ==
    LET L(type) == Line(type, operation, DevA, RelPath(path, DevA.mount_point),
                        ps.file_size, Lower(SplitExt(path)), final, ghost)
        Go(pc, size, out) ==
            [next |-> IF pc = "off" THEN NoPass ELSE [pc |-> pc, file_size |-> size],
             out |-> out]
    IN  CASE ps.pc = "exists" ->
                 IF f.kind # "none" THEN Go("getsize", 0, <<>>)
                 ELSE Go(AfterSize(cfg, 0), 0, <<>>)
          [] ps.pc = "getsize" ->
                 IF f.kind = "none" THEN Go("werror", 0, <<>>)
                 ELSE Go(AfterSize(cfg, f.size), f.size, <<>>)
          [] ps.pc = "wlarge" ->
                 Go("suspicious", ps.file_size, <<L("LARGE")>>)
          [] ps.pc = "suspicious" ->
                 Go(IF IsSuspiciousFile(cfg, path, f, TRUE) THEN "wsuspicious"
                    ELSE AfterSuspicious(cfg, clock, final), ps.file_size, <<>>)
          [] ps.pc = "wsuspicious" ->
                 Go(AfterSuspicious(cfg, clock, final), ps.file_size, <<L("SUSPICIOUS")>>)
          [] ps.pc = "wafterhours" ->
                 Go(AfterAlerts(final), ps.file_size, <<L("AFTERHOURS")>>)
          [] ps.pc = "wtransfer" ->
                 Go("off", 0, <<L("TRANSFER")>>)
          [] ps.pc = "werror" ->
                 Go("off", 0, <<ErrorLine(operation, path, final, ghost)>>)

\* ------------------------------------------------------------------
\* USBFileEventHandler: ingestion (observer thread)
\* ------------------------------------------------------------------
\* What a handler does with a notification: the operation it records, the
\* paths it tries in order, and whether a path must pass
\* _should_monitor_file to be recorded.
Plan(op, paths, checked) == [op |-> op, paths |-> paths, checked |-> checked]

Ignored == Plan("none", <<>>, FALSE)

\* The target the observer thread works on: the first path of the plan, and
\* the paths it tries if that one is refused.
Target(op, paths) == [op |-> op, path |-> Head(paths), rest |-> Tail(paths)]

\* on_created
OnCreated(e) ==
    IF ~e.is_directory THEN Plan("created", <<e.src_path>>, TRUE) ELSE Ignored

\* on_deleted
OnDeleted(e) ==
    IF ~e.is_directory THEN Plan("deleted", <<e.src_path>>, FALSE) ELSE Ignored

\* on_modified
\* (Variant: the eligibility check is left out.)
OnModifiedUnchecked(e) ==
    IF ~e.is_directory THEN Plan("modified", <<e.src_path>>, FALSE) ELSE Ignored

OnModified(e) ==
    IF ~e.is_directory THEN Plan("modified", <<e.src_path>>, TRUE) ELSE Ignored

\* on_moved
\* (Variant: the source is used only when there is no destination.)
OnMovedDestinationOnly(e) ==
    IF e.is_directory THEN Ignored
    ELSE IF e.dest_path # "none" THEN Plan("moved", <<e.dest_path>>, TRUE)
    ELSE Plan("moved", <<e.src_path>>, TRUE)

OnMoved(e) ==
    IF e.is_directory THEN Ignored
    ELSE IF e.dest_path # "none" THEN Plan("moved", <<e.dest_path, e.src_path>>, TRUE)
    ELSE Plan("moved", <<e.src_path>>, TRUE)

\* FileSystemEventHandler.dispatch: the handler chosen by the event type.
HandlerTarget(e) ==
    CASE e.type = "created" -> OnCreated(e)
      [] e.type = "deleted" -> OnDeleted(e)
      [] e.type = "modified" -> OnModified(e)
      [] e.type = "moved" -> OnMoved(e)

\* The observer thread takes the next notification and enters its handler:
\* the directory test.  A delete goes straight to _record_operation.
Dispatch ==
    /\ ~obsStopped
    /\ ipc = "idle"
    /\ queue # <<>>
    /\ LET e == Head(queue)
           plan == HandlerTarget(e)
           direct == plan # Ignored /\ ~plan.checked
       IN  /\ queue' = Tail(queue)
           /\ hist' = Append(hist, [ev |-> e,
                                    op |-> IF direct THEN plan.op ELSE "none",
                                    path |-> IF direct THEN Head(plan.paths) ELSE "none",
                                    rec |-> direct, t |-> -1,
                                    late |-> hStop /\ spc = "done"])
           /\ cur' = IF plan = Ignored THEN NoTarget ELSE Target(plan.op, plan.paths)
           /\ ipc' = IF plan = Ignored THEN "idle"
                     ELSE IF plan.checked THEN "isfile" ELSE "record"
    /\ UNCHANGED <<config, wall, now, fs, budget, in_progress, opsLock, hStop,
                   obsStopped, ipass, spc, current_time, to_finalize, spass, log,
                   mvars, xvars>>

\* _should_monitor_file has refused cur.path: the handler tries the next
\* path of its plan (on_moved: the source after the destination) or
\* returns.
Refused(target) ==
    IF target.rest = <<>> THEN NoTarget ELSE Target(target.op, target.rest)

\* _should_monitor_file, line 53: os.path.isfile(path).
ShouldMonitorIsFile ==
    /\ ipc = "isfile"
    /\ IF fs[cur.path].kind = "file"
       THEN /\ ipc' = "getsize"
            /\ cur' = cur
       ELSE /\ cur' = Refused(cur)
            /\ ipc' = IF Refused(cur) = NoTarget THEN "idle" ELSE "isfile"
    /\ UNCHANGED <<config, wall, now, fs, queue, budget, in_progress, opsLock, hStop,
                   obsStopped, ipass, spc, current_time, to_finalize, spass, log, hist,
                   mvars, xvars>>

\* What lines 57-94 of _should_monitor_file return for a path that isfile
\* has accepted, when f is the state of the path as os.path.getsize finds
\* it: the call raises for a path that is gone.
AcceptedAtSize(cfg, p, f) ==
    ShouldMonitorFile(cfg, PathOf(p), [kind |-> "file", size |-> f.size], f.kind # "none")

\* _should_monitor_file, lines 57-94: os.path.getsize(path), the size
\* bounds and the extension lists; then the handler records or goes on.
ShouldMonitorSize ==
    /\ ipc = "getsize"
    /\ IF AcceptedAtSize(config, cur.path, fs[cur.path])
       THEN /\ ipc' = "record"
            /\ cur' = [cur EXCEPT !.rest = <<>>]
            /\ hist' = [hist EXCEPT ![Len(hist)].rec = TRUE,
                                    ![Len(hist)].op = cur.op,
                                    ![Len(hist)].path = cur.path]
       ELSE /\ cur' = Refused(cur)
            /\ ipc' = IF Refused(cur) = NoTarget THEN "idle" ELSE "isfile"
            /\ hist' = hist
    /\ UNCHANGED <<config, wall, now, fs, queue, budget, in_progress, opsLock, hStop,
                   obsStopped, ipass, spc, current_time, to_finalize, spass, log,
                   mvars, xvars>>

\* (Variant: the table is a list of entries, a new entry is appended.)
UpsertAppend(tbl, entry) == Append(tbl, entry)

\* (Variant: an existing key takes the new operation and keeps its time.)
UpsertKeepsTime(tbl, entry) ==
    IF \E i \in 1..Len(tbl) : tbl[i].path = entry.path
    THEN [i \in 1..Len(tbl) |-> IF tbl[i].path = entry.path
                                THEN [entry EXCEPT !.start_time = tbl[i].start_time]
                                ELSE tbl[i]]
    ELSE Append(tbl, entry)

\* self._in_progress[path] = entry: an existing key keeps its place in the
\* dict's order, a new key goes to the end.
Upsert(tbl, entry) ==
    IF \E i \in 1..Len(tbl) : tbl[i].path = entry.path
    THEN [i \in 1..Len(tbl) |-> IF tbl[i].path = entry.path THEN entry ELSE tbl[i]]
    ELSE Append(tbl, entry)

\* _record_operation: under the lock, table[path] = (operation, time.time()).
\* eid names the notification that made the entry.  The handler then
\* calls _log_file_operation(operation, path).
RecordOperation ==
    /\ ipc = "record"
    /\ opsLock = "free"
    /\ in_progress' = Upsert(in_progress,
                             [path |-> cur.path, operation |-> cur.op,
                              start_time |-> now, eid |-> Len(hist)])
    /\ hist' = [hist EXCEPT ![Len(hist)].t = now]
    /\ ipc' = "log"
    /\ ipass' = PassEntry
    /\ UNCHANGED <<config, wall, now, fs, queue, budget, opsLock, hStop, obsStopped,
                   cur, spc, current_time, to_finalize, spass, log, mvars, xvars>>

\* The immediate pass, _log_file_operation(operation, path) with
\* final = False: one step of it.  The handler returns when the pass ends.
ImmediateLog ==
    /\ ipc = "log"
    /\ LET r == PassStep(ipass, config, wall, fs[cur.path], cur.op, PathOf(cur.path),
                         FALSE, [path |-> cur.path, eid |-> Len(hist),
                                 cur |-> -1, latest |-> Len(hist), seen |-> Len(hist)])
       IN  /\ log' = log \o r.out
           /\ ipass' = r.next
           /\ ipc' = IF r.next = NoPass THEN "idle" ELSE "log"
           /\ cur' = IF r.next = NoPass THEN NoTarget ELSE cur
    /\ UNCHANGED <<config, wall, now, fs, queue, budget, in_progress, opsLock, hStop,
                   obsStopped, spc, current_time, to_finalize, spass, hist, mvars, xvars>>

\* USBFileEventHandler.stop: sets the stop event of the finalizer.
HandlerStop ==
    /\ ~hStop
    /\ hStop' = TRUE
    /\ UNCHANGED <<config, wall, now, fs, queue, budget, in_progress, opsLock,
                   obsStopped, ipc, cur, ipass, spc, current_time, to_finalize, spass,
                   log, hist, mvars, xvars>>

\* observer.stop(), called after handler.stop(): undelivered notifications
\* are dropped.
ObserverStop ==
    /\ hStop
    /\ ~obsStopped
    /\ obsStopped' = TRUE
    /\ queue' = <<>>
    /\ UNCHANGED <<config, wall, now, fs, budget, in_progress, opsLock, hStop,
                   ipc, cur, ipass, spc, current_time, to_finalize, spass, log, hist,
                   mvars, xvars>>

\* ------------------------------------------------------------------
\* USBFileEventHandler: finalization (finalizer thread)
\* ------------------------------------------------------------------
\* (Variant: while True, the stop event is never tested.)
SweepLoopForever ==
    /\ spc = "loop"
    /\ spc' = "lock"
    /\ current_time' = now
    /\ to_finalize' = <<>>
    /\ UNCHANGED <<config, wall, now, fs, queue, budget, in_progress, opsLock, hStop,
                   obsStopped, ipc, cur, ipass, spass, log, hist, mvars, xvars>>

\* while not self.stop_event.is_set(): current_time = time.time();
\* to_finalize = [].  The loop test and the clock read are one step.
SweepLoop ==
    /\ spc = "loop"
    /\ spc' = IF hStop THEN "done" ELSE "lock"
    /\ current_time' = IF hStop THEN 0 ELSE now
    /\ to_finalize' = <<>>
    /\ UNCHANGED <<config, wall, now, fs, queue, budget, in_progress, opsLock, hStop,
                   obsStopped, ipc, cur, ipass, spass, log, hist, mvars, xvars>>

\* with self._operations_lock
SweepAcquire ==
    /\ spc = "lock"
    /\ opsLock = "free"
    /\ opsLock' = "sweep"
    /\ spc' = "select"
    /\ UNCHANGED <<config, wall, now, fs, queue, budget, in_progress, hStop,
                   obsStopped, ipc, cur, ipass, current_time, to_finalize, spass,
                   log, hist, mvars, xvars>>

\* (Variant: no quiet period, every entry is taken by the next sweep.)
ExpiredAtOnce(entry, t) == TRUE

\* (Variant: an entry is taken as soon as its age reaches the threshold.)
ExpiredAtThreshold(entry, t) == t - entry.start_time >= OpCompletionTime

\* current_time - start_time > self.op_completion_time
Expired(entry, t) == t - entry.start_time > OpCompletionTime

\* Index of the latest notification recorded for a path, 0 when none.
RECURSIVE LatestRecorded(_, _, _)
LatestRecorded(h, p, i) ==
    IF i = 0 THEN 0
    ELSE IF h[i].rec /\ h[i].path = p /\ h[i].t >= 0 THEN i
    ELSE LatestRecorded(h, p, i - 1)

\* The number of notifications whose handler has returned or has got to
\* _record_operation: the last one dispatched is still in its eligibility
\* check while the observer thread is at isfile or getsize.
Handled == IF ipc \in {"isfile", "getsize"} THEN Len(hist) - 1 ELSE Len(hist)

\* The entries the sweep moves to to_finalize, in the dict's order.
Selected(tbl, t) == SelectSeq(tbl, LAMBDA x : Expired(x, t))

\* (Variant: the selected entries are not deleted from the table.)
RemainingKept(tbl, t) == tbl

\* The entries the sweep leaves in the table.
Remaining(tbl, t) == SelectSeq(tbl, LAMBDA x : ~Expired(x, t))

\* (Variant: the batch is finalized inside the with block, the lock is
\* still held when the selection ends.)
SweepSelectHolding ==
    /\ spc = "select"
    /\ to_finalize' = [i \in 1..Len(Selected(in_progress, current_time)) |->
                         LET x == Selected(in_progress, current_time)[i]
                         IN  [path |-> x.path, operation |-> x.operation,
                              eid |-> x.eid, cur |-> current_time,
                              latest |-> LatestRecorded(hist, x.path, Len(hist)),
                              seen |-> Handled]]
    /\ in_progress' = Remaining(in_progress, current_time)
    /\ nRemoved' = nRemoved + Len(Selected(in_progress, current_time))
    /\ spc' = "finalize"
    /\ UNCHANGED <<config, wall, now, fs, queue, budget, opsLock, hStop, obsStopped,
                   ipc, cur, ipass, current_time, spass, log, hist, mvars,
                   wvars, pvars, lvars, cvars, avars>>

\* The loop under the lock: expired entries are appended to to_finalize and
\* deleted from the table; the lock is released.
SweepSelect ==
    /\ spc = "select"
    /\ to_finalize' = [i \in 1..Len(Selected(in_progress, current_time)) |->
                         LET x == Selected(in_progress, current_time)[i]
                         IN  [path |-> x.path, operation |-> x.operation,
                              eid |-> x.eid, cur |-> current_time,
                              latest |-> LatestRecorded(hist, x.path, Len(hist)),
                              seen |-> Handled]]
    /\ in_progress' = Remaining(in_progress, current_time)
    /\ nRemoved' = nRemoved + Len(Selected(in_progress, current_time))
    /\ opsLock' = "free"
    /\ spc' = "finalize"
    /\ UNCHANGED <<config, wall, now, fs, queue, budget, hStop, obsStopped, ipc, cur,
                   ipass, current_time, spass, log, hist, mvars,
                   wvars, pvars, lvars, cvars, avars>>

\* (Variant: only a deletion gets a final pass.)
WritesFinalDeletedOnly(item, f) == item.operation = "deleted"

\* if os.path.exists(path) or operation == "deleted"
WritesFinal(item, f) == f.kind # "none" \/ item.operation = "deleted"

\* One iteration of "for path, operation in to_finalize" begins: the test
\* of line 209 on the head of the batch.  The entry either enters
\* _log_file_operation(operation, path, final=True) or is dropped.
SweepFinalizeOne ==
    /\ spc = "finalize"
    /\ to_finalize # <<>>
    /\ spass = NoPass
    /\ IF WritesFinal(Head(to_finalize), fs[Head(to_finalize).path])
       THEN /\ spass' = PassEntry
            /\ to_finalize' = to_finalize
       ELSE /\ spass' = NoPass
            /\ to_finalize' = Tail(to_finalize)
    /\ UNCHANGED <<config, wall, now, fs, queue, budget, in_progress, opsLock, hStop,
                   obsStopped, ipc, cur, ipass, spc, current_time, log, hist,
                   mvars, xvars>>

\* The final pass of the head of the batch: one step of it.  The iteration
\* ends with the pass.
FinalLog ==
    /\ spc = "finalize"
    /\ spass # NoPass
    /\ LET x == Head(to_finalize)
           r == PassStep(spass, config, wall, fs[x.path], x.operation, PathOf(x.path),
                         TRUE, [path |-> x.path, eid |-> x.eid,
                                cur |-> x.cur, latest |-> x.latest, seen |-> x.seen])
       IN  /\ log' = log \o r.out
           /\ spass' = r.next
           /\ to_finalize' = IF r.next = NoPass THEN Tail(to_finalize) ELSE to_finalize
    /\ UNCHANGED <<config, wall, now, fs, queue, budget, in_progress, opsLock, hStop,
                   obsStopped, ipc, cur, ipass, spc, current_time, hist, mvars, xvars>>

\* End of the batch: time.sleep(0.5), then the loop test again.  The clock
\* value of the pass is dead from here on.
SweepSleep ==
    /\ spc = "finalize"
    /\ to_finalize = <<>>
    /\ spc' = "loop"
    /\ current_time' = 0
    /\ UNCHANGED <<config, wall, now, fs, queue, budget, in_progress, opsLock, hStop,
                   obsStopped, ipc, cur, ipass, to_finalize, spass, log, hist,
                   mvars, xvars>>

\* ------------------------------------------------------------------
\* The reconciler's specification
\* ------------------------------------------------------------------
RNext ==
    \/ \E p \in Paths, s \in FileSizes : FsCreate(p, s)
    \/ \E p \in Paths, s \in DirSizes : FsMkdir(p, s)
    \/ \E p \in Paths, s \in FileSizes : FsWrite(p, s)
    \/ \E p \in Paths : FsDelete(p)
    \/ \E p \in Paths, q \in Paths : FsMove(p, q)
    \/ \E p \in Paths : FsMoveOut(p)
    \/ Tick
    \/ SaveSettings
    \/ Dispatch
    \/ ShouldMonitorIsFile
    \/ ShouldMonitorSize
    \/ RecordOperation
    \/ ImmediateLog
    \/ HandlerStop
    \/ ObserverStop
    \/ SweepLoop
    \/ SweepAcquire
    \/ SweepSelect
    \/ SweepFinalizeOne
    \/ FinalLog
    \/ SweepSleep

\* ------------------------------------------------------------------
\* USBFileEventHandler when a log or its digest file cannot be written
\* ------------------------------------------------------------------
\* What a logger call that raises leaves in the log.
\* SecureFileHandler.emit raises from _save_hash (logger.py:54), after
\* the record was written and flushed.  When a rollover is due in the same
\* call, _save_hash raises in doRollover first, inside the error handling of
\* RotatingFileHandler.emit, and the record is not written.
RaisedWrites(out) == {out, <<>>}

\* The line logger.error writes in the except branch of
\* _finalize_operations (line 213).
FinalizerErrorLine ==
    Line("FINALIZER", "none", DevA, <<>>, 0, <<>>, TRUE,
         [path |-> "none", eid |-> 0, cur |-> -1, latest |-> 0, seen |-> 0])

\* A logger call of the final pass raises: the pass goes to its except
\* branch (line 185).
SweepFinalizeFails ==
    /\ spc = "finalize"
    /\ spass.pc \in WritePcs
    /\ LET x == Head(to_finalize)
           r == PassStep(spass, config, wall, fs[x.path], x.operation, PathOf(x.path),
                         TRUE, [path |-> x.path, eid |-> x.eid,
                                cur |-> x.cur, latest |-> x.latest, seen |-> x.seen])
       IN  \E out \in RaisedWrites(r.out) : log' = log \o out
    /\ spass' = [pc |-> "werror", file_size |-> 0]
    /\ UNCHANGED <<config, wall, now, fs, queue, budget, in_progress, opsLock, hStop,
                   obsStopped, ipc, cur, ipass, spc, current_time, to_finalize,
                   hist, mvars, xvars>>

\* logger.error of line 186 raises as well: the exception leaves
\* _log_file_operation and the for loop, and is caught at line 212.
SweepErrorFails ==
    /\ spc = "finalize"
    /\ spass.pc = "werror"
    /\ LET x == Head(to_finalize)
           line == ErrorLine(x.operation, PathOf(x.path), TRUE,
                             [path |-> x.path, eid |-> x.eid,
                              cur |-> x.cur, latest |-> x.latest, seen |-> x.seen])
       IN  \E out \in RaisedWrites(<<line>>) : log' = log \o out
    /\ spass' = NoPass
    /\ spc' = "except"
    /\ UNCHANGED <<config, wall, now, fs, queue, budget, in_progress, opsLock, hStop,
                   obsStopped, ipc, cur, ipass, current_time, to_finalize,
                   hist, mvars, xvars>>

\* The except branch of _finalize_operations: logger.error of line 213
\* returns.  The rest of the batch is dropped, the thread goes on to its
\* sleep.
SweepExcept ==
    /\ spc = "except"
    /\ log' = Append(log, FinalizerErrorLine)
    /\ to_finalize' = <<>>
    /\ spc' = "finalize"
    /\ UNCHANGED <<config, wall, now, fs, queue, budget, in_progress, opsLock, hStop,
                   obsStopped, ipc, cur, ipass, current_time, spass,
                   hist, mvars, xvars>>

\* logger.error of line 213 raises: the exception leaves the while loop
\* and the finalizer thread ends.
SweepFinalizeDies ==
    /\ spc = "except"
    /\ \E out \in RaisedWrites(<<FinalizerErrorLine>>) : log' = log \o out
    /\ to_finalize' = <<>>
    /\ current_time' = 0
    /\ spc' = "crashed"
    /\ UNCHANGED <<config, wall, now, fs, queue, budget, in_progress, opsLock, hStop,
                   obsStopped, ipc, cur, ipass, spass, hist, mvars, xvars>>

\* A logger call of the final pass returns with no line written: the
\* rotation that was due or the write of the record failed,
\* RotatingFileHandler.emit handed the exception to handleError, and
\* _save_hash went through.  The pass goes on as after a written line.
FinalLogLost ==
    /\ spc = "finalize"
    /\ spass.pc \in WritePcs \cup {"werror"}
    /\ LET x == Head(to_finalize)
           r == PassStep(spass, config, wall, fs[x.path], x.operation, PathOf(x.path),
                         TRUE, [path |-> x.path, eid |-> x.eid,
                                cur |-> x.cur, latest |-> x.latest, seen |-> x.seen])
       IN  /\ spass' = r.next
           /\ to_finalize' = IF r.next = NoPass THEN Tail(to_finalize) ELSE to_finalize
    /\ UNCHANGED <<config, wall, now, fs, queue, budget, in_progress, opsLock, hStop,
                   obsStopped, ipc, cur, ipass, spc, current_time, log, hist, mvars, xvars>>

\* logger.error of line 213 returns with no line written.
SweepExceptLost ==
    /\ spc = "except"
    /\ to_finalize' = <<>>
    /\ spc' = "finalize"
    /\ UNCHANGED <<config, wall, now, fs, queue, budget, in_progress, opsLock, hStop,
                   obsStopped, ipc, cur, ipass, current_time, spass, log,
                   hist, mvars, xvars>>

\* A logger call of the immediate pass returns with no line written.
ImmediateLogLost ==
    /\ ipc = "log"
    /\ ipass.pc \in WritePcs \cup {"werror"}
    /\ LET r == PassStep(ipass, config, wall, fs[cur.path], cur.op, PathOf(cur.path),
                         FALSE, [path |-> cur.path, eid |-> Len(hist),
                                 cur |-> -1, latest |-> Len(hist), seen |-> Len(hist)])
       IN  /\ ipass' = r.next
           /\ ipc' = IF r.next = NoPass THEN "idle" ELSE "log"
           /\ cur' = IF r.next = NoPass THEN NoTarget ELSE cur
    /\ UNCHANGED <<config, wall, now, fs, queue, budget, in_progress, opsLock, hStop,
                   obsStopped, spc, current_time, to_finalize, spass, log, hist,
                   mvars, xvars>>

\* A logger call of the immediate pass raises: the pass goes to its except
\* branch.
ImmediateLogFails ==
    /\ ipc = "log"
    /\ ipass.pc \in WritePcs
    /\ LET r == PassStep(ipass, config, wall, fs[cur.path], cur.op, PathOf(cur.path),
                         FALSE, [path |-> cur.path, eid |-> Len(hist),
                                 cur |-> -1, latest |-> Len(hist), seen |-> Len(hist)])
       IN  \E out \in RaisedWrites(r.out) : log' = log \o out
    /\ ipass' = [pc |-> "werror", file_size |-> 0]
    /\ UNCHANGED <<config, wall, now, fs, queue, budget, in_progress, opsLock, hStop,
                   obsStopped, ipc, cur, spc, current_time, to_finalize, spass,
                   hist, mvars, xvars>>

\* logger.error of line 186 raises in the immediate pass: the exception
\* leaves the handler and ends the observer's dispatching thread; the
\* notifications queued from then on are never dispatched.
ImmediateErrorFails ==
    /\ ipc = "log"
    /\ ipass.pc = "werror"
    /\ LET line == ErrorLine(cur.op, PathOf(cur.path), FALSE,
                             [path |-> cur.path, eid |-> Len(hist),
                              cur |-> -1, latest |-> Len(hist), seen |-> Len(hist)])
       IN  \E out \in RaisedWrites(<<line>>) : log' = log \o out
    /\ ipass' = NoPass
    /\ cur' = NoTarget
    /\ ipc' = "crashed"
    /\ UNCHANGED <<config, wall, now, fs, queue, budget, in_progress, opsLock, hStop,
                   obsStopped, spc, current_time, to_finalize, spass,
                   hist, mvars, xvars>>

\* ------------------------------------------------------------------
\* USBMonitor: the device registry and its poller
\* ------------------------------------------------------------------
Devices == {DevA, DevA2, DevB}

\* The order in which the OS enumerates the partitions.
DeviceOrder == <<DevA, DevA2, DevB>>

\* What one call of a subscriber's callback does: return, raise, or call a
\* read accessor of the registry (get_connected_devices, ...) and return.
Behaviours == {"ok", "raise", "read"}

\* The subscribers, in registration order.
Subscribers == 1..NumSubs

\* platform.system()
Platforms == {"Windows", "Linux", "Darwin"}

NoTrig == [kind |-> "none", device |-> DevA, i |-> 0, ret |-> "none"]
NoEvent == [action |-> "none", device |-> DevA]

\* {device.device_id for device in devices}
Ids(devs) == {devs[i].device_id : i \in 1..Len(devs)}

\* list(self.connected_devices.keys())
Keys(devs) == [i \in 1..Len(devs) |-> devs[i].device_id]

\* self.connected_devices[device.device_id] = device: an existing key keeps
\* its place and takes the new value.
DictPut(devs, d) ==
    IF d.device_id \in Ids(devs)
    THEN [i \in 1..Len(devs) |-> IF devs[i].device_id = d.device_id THEN d ELSE devs[i]]
    ELSE Append(devs, d)

\* self.connected_devices[device_id]
DictGet(devs, id) == devs[CHOOSE i \in 1..Len(devs) : devs[i].device_id = id]

\* The dict without the key that self.connected_devices.pop(device_id) takes.
DictPop(devs, id) == SelectSeq(devs, LAMBDA d : d.device_id # id)

\* The mounted partitions in enumeration order.
FullDetection(att) == SelectSeq(DeviceOrder, LAMBDA d : d \in att)

\* The lists obtained from a list by leaving elements out.
RECURSIVE SubLists(_)
SubLists(l) ==
    IF l = <<>> THEN {<<>>}
    ELSE LET r == SubLists(Tail(l))
         IN  r \cup {<<Head(l)>> \o x : x \in r}

\* _detect_devices: the list it returns, and whether an except branch
\* logged an error (failed).
\* _detect_linux_devices: when the enumeration raises, the devices appended
\* so far are returned and the error is logged.
\* _detect_windows_devices: a disk whose WMI query raises is skipped and
\* the error is logged (inner except); when the enumeration itself raises,
\* the list ends there and the error is logged (outer except).
\* _detect_macos_devices: 'diskutil list' with a non-zero status gives the
\* empty list and 'diskutil info' with a non-zero status skips the
\* partition, both without a log line; an exception ends the enumeration
\* and is logged.
DetectOutcomes(sys, att) ==
    IF sys = "Linux"
    THEN {[devices |-> FullDetection(att), failed |-> FALSE]}
         \cup {[devices |-> SubSeq(FullDetection(att), 1, k), failed |-> TRUE] :
                 k \in 0..Len(FullDetection(att))}
    ELSE IF sys = "Windows"
    THEN {[devices |-> FullDetection(att), failed |-> FALSE]}
         \cup {[devices |-> l, failed |-> TRUE] : l \in SubLists(FullDetection(att))}
    ELSE {[devices |-> l, failed |-> b] : l \in SubLists(FullDetection(att)), b \in BOOLEAN}

MInit ==
    /\ platform \in Platforms
    /\ attached = {}
    /\ udevq = <<>>
    /\ stop_event = FALSE
    /\ connected_devices = <<>>
    /\ regLock = "free"
    /\ mpc = "start"
    /\ current_devices = <<>>
    /\ rem_keys = <<>>
    /\ add_rest = <<>>
    /\ trig = NoTrig
    /\ ev = NoEvent
    /\ detectFailed = FALSE
    /\ cycleC = <<>>
    /\ cycleNotifs = <<>>
    /\ cycleRaised = {}
    /\ prevD = <<>>

\* --- environment
\* The positions of the thread inside the for loop of
\* _monitor_linux_devices.
NetlinkLoop == {"lx_poll", "lx_event", "lx_store", "lx_unlock", "lx_except"}

\* A partition is plugged in and mounted; udev queues an event for the
\* netlink monitor while the thread is in the loop that polls it.
Listening ==
    \/ mpc \in NetlinkLoop
    \/ mpc \in {"trigger", "deadlock"} /\ trig.ret \in NetlinkLoop

\* An event that finds the receive buffer of the netlink socket full
\* (MaxPending events) is lost.
Plug(d) ==
    /\ d \notin attached
    /\ attached' = attached \cup {d}
    /\ udevq' = IF Listening /\ Len(udevq) < MaxPending
                 THEN Append(udevq, [action |-> "add", device |-> d])
                 ELSE udevq
    /\ UNCHANGED <<platform, stop_event, connected_devices, regLock, mpc,
                   current_devices, rem_keys, add_rest, trig, ev, detectFailed, cycleC,
                   cycleNotifs, cycleRaised, prevD, rvars, xvars>>

Unplug(d) ==
    /\ d \in attached
    /\ attached' = attached \ {d}
    /\ udevq' = IF Listening /\ Len(udevq) < MaxPending
                 THEN Append(udevq, [action |-> "remove", device |-> d])
                 ELSE udevq
    /\ UNCHANGED <<platform, stop_event, connected_devices, regLock, mpc,
                   current_devices, rem_keys, add_rest, trig, ev, detectFailed, cycleC,
                   cycleNotifs, cycleRaised, prevD, rvars, xvars>>

\* main: stop_event.set()
SetStop ==
    /\ ~stop_event
    /\ stop_event' = TRUE
    /\ UNCHANGED <<platform, attached, udevq, connected_devices, regLock, mpc,
                   current_devices, rem_keys, add_rest, trig, ev, detectFailed, cycleC,
                   cycleNotifs, cycleRaised, prevD, rvars, xvars>>

\* --- start_monitoring
RECURSIVE PutAll(_, _)
PutAll(devs, new) ==
    IF new = <<>> THEN devs ELSE PutAll(DictPut(devs, Head(new)), Tail(new))

\* The monitoring function start_monitoring hands over to:
\* _monitor_linux_devices, or the polling loop, which is the loop of
\* _monitor_windows_devices on Windows and the loop of _monitor_fallback on
\* macOS.  The two loops differ in the detection they call, in the text of
\* their error report and in the length of their sleep.
MonitorEntry(sys) == IF sys = "Linux" THEN "lx_setup" ELSE "poll_loop"

\* start_monitoring: current_devices = self._detect_devices(), without the
\* lock.
StartDetect ==
    /\ mpc = "start"
    /\ \E r \in DetectOutcomes(platform, attached) :
          /\ current_devices' = r.devices
          /\ detectFailed' = r.failed
    /\ mpc' = "start_store"
    /\ UNCHANGED <<platform, attached, udevq, stop_event, connected_devices, regLock,
                   rem_keys, add_rest, trig, ev, cycleC, cycleNotifs, cycleRaised, prevD,
                   rvars, xvars>>

\* Every detected device is stored under the lock, no callback is
\* triggered; then the platform's monitor is entered.
StartMonitoring ==
    /\ mpc = "start_store"
    /\ regLock = "free"
    /\ connected_devices' = PutAll(connected_devices, current_devices)
    /\ mpc' = MonitorEntry(platform)
    /\ UNCHANGED <<platform, attached, udevq, stop_event, regLock, current_devices,
                   rem_keys, add_rest, trig, ev, detectFailed, cycleC, cycleNotifs,
                   cycleRaised, prevD, rvars, xvars>>

\* start_monitoring when a logger call raises (SecureFileHandler.emit
\* raises from _save_hash when the digest file cannot be written).  At the
\* start, logger.info of line 102 or the error report of the detection
\* raises and nothing is stored.  In the store loop, logger.info of line
\* 109 raises after a device was stored and the with block releases the
\* lock; after the loop, the first logger.info of the platform's monitor
\* raises.  The exception leaves start_monitoring and the thread ends.
StartRaises ==
    /\ mpc \in {"start", "start_store"}
    /\ mpc = "start_store" => regLock = "free"
    /\ \E k \in (IF current_devices = <<>> THEN {0} ELSE 1..Len(current_devices)) :
          connected_devices' = PutAll(connected_devices, SubSeq(current_devices, 1, k))
    /\ current_devices' = <<>>
    /\ detectFailed' = FALSE
    /\ mpc' = "crashed"
    /\ UNCHANGED <<platform, attached, udevq, stop_event, regLock, rem_keys, add_rest,
                   trig, ev, cycleC, cycleNotifs, cycleRaised, prevD, rvars, xvars>>

\* --- _trigger_device_added / _trigger_device_removed
\* The loop after one callback: its exception, if any, is caught and logged
\* inside the loop, and the next callback is called.
AfterCallback(t, outcome) == [t EXCEPT !.i = t.i + 1]

StartTrigger(kind, device, ret) == [kind |-> kind, device |-> device, i |-> 1, ret |-> ret]

\* One callback of the list is called and does b.  A callback that calls a
\* read accessor takes self._lock, a threading.Lock: when the calling thread
\* already holds it, the call never returns.
TriggerCallback ==
    /\ mpc = "trigger"
    /\ trig.i <= NumSubs
    /\ \E b \in Behaviours :
          LET blocked == b = "read" /\ regLock = "monitor"
          IN  /\ cycleNotifs' = Append(cycleNotifs,
                                       [kind |-> trig.kind, id |-> trig.device.device_id,
                                        sub |-> trig.i, locked |-> regLock = "monitor"])
              /\ cycleRaised' = IF b = "raise" THEN cycleRaised \cup {trig.i} ELSE cycleRaised
              /\ trig' = IF blocked THEN trig ELSE AfterCallback(trig, b)
              /\ mpc' = IF blocked THEN "deadlock" ELSE mpc
    /\ UNCHANGED <<platform, attached, udevq, stop_event, connected_devices,
                   regLock, current_devices, rem_keys, add_rest, ev, detectFailed,
                   cycleC, prevD, rvars, xvars>>

\* The except branch an exception reaches when it leaves a notification
\* that was started from position ret: the one of the polling loop (line
\* 373, line 269 on Windows) or the inner one of the netlink loop (line
\* 334).
ExceptOf(ret) == IF ret \in {"poll_removed", "poll_added"} THEN "poll_except" ELSE "lx_except"

\* A callback raises and logger.error of the except branch (line 72, line
\* 80) raises as well: the exception leaves the loop over the callbacks,
\* the callbacks after this one are not called, and it leaves the with
\* block, which releases the lock if it was held.
TriggerErrorRaises ==
    /\ mpc = "trigger"
    /\ trig.i <= NumSubs
    /\ cycleNotifs' = Append(cycleNotifs,
                             [kind |-> trig.kind, id |-> trig.device.device_id,
                              sub |-> trig.i, locked |-> regLock = "monitor"])
    /\ cycleRaised' = cycleRaised \cup {trig.i}
    /\ trig' = NoTrig
    /\ regLock' = "free"
    /\ rem_keys' = <<>>
    /\ add_rest' = <<>>
    /\ mpc' = ExceptOf(trig.ret)
    /\ UNCHANGED <<platform, attached, udevq, stop_event, connected_devices,
                   current_devices, ev, detectFailed, cycleC, prevD, rvars, xvars>>

\* The callback list is exhausted: the trigger function returns.
TriggerReturn ==
    /\ mpc = "trigger"
    /\ trig.i > NumSubs
    /\ mpc' = trig.ret
    /\ trig' = NoTrig
    /\ UNCHANGED <<platform, attached, udevq, stop_event, connected_devices,
                   regLock, current_devices, rem_keys, add_rest, ev, detectFailed,
                   cycleC, cycleNotifs, cycleRaised, prevD, rvars, xvars>>

\* --- _monitor_fallback and _monitor_windows_devices (the same loop)
\* while not stop_event.is_set()
PollLoop ==
    /\ mpc = "poll_loop"
    /\ mpc' = IF stop_event THEN "exited" ELSE "poll_detect"
    /\ UNCHANGED <<platform, attached, udevq, stop_event, connected_devices,
                   regLock, current_devices, rem_keys, add_rest, trig, ev, detectFailed,
                   cycleC, cycleNotifs, cycleRaised, prevD, rvars, xvars>>

\* current_devices = self._detect_devices()
PollDetect ==
    /\ mpc = "poll_detect"
    /\ \E r \in DetectOutcomes(platform, attached) :
          /\ current_devices' = r.devices
          /\ detectFailed' = r.failed
    /\ mpc' = "poll_lock"
    /\ UNCHANGED <<platform, attached, udevq, stop_event, connected_devices,
                   regLock, rem_keys, add_rest, trig, ev, cycleC, cycleNotifs, cycleRaised, prevD,
                   rvars, xvars>>

\* with self._lock: the removal loop starts on list(self.connected_devices.keys())
PollLock ==
    /\ mpc = "poll_lock"
    /\ regLock = "free"
    /\ regLock' = "monitor"
    /\ rem_keys' = Keys(connected_devices)
    /\ cycleC' = connected_devices
    /\ cycleNotifs' = <<>>
    /\ cycleRaised' = {}
    /\ mpc' = "poll_removed"
    /\ UNCHANGED <<platform, attached, udevq, stop_event, connected_devices,
                   current_devices, add_rest, trig, ev, detectFailed, prevD, rvars, xvars>>

\* if device_id not in current_device_ids
ShouldRemove(id, detected) == id \notin Ids(detected)

\* One iteration of the removal loop, or its end.
PollRemoved ==
    /\ mpc = "poll_removed"
    /\ IF rem_keys = <<>>
       THEN /\ add_rest' = current_devices
            /\ mpc' = "poll_added"
            /\ UNCHANGED <<rem_keys, connected_devices, trig>>
       ELSE /\ rem_keys' = Tail(rem_keys)
            /\ add_rest' = add_rest
            /\ IF ShouldRemove(Head(rem_keys), current_devices)
               THEN /\ connected_devices' = DictPop(connected_devices, Head(rem_keys))
                    /\ trig' = StartTrigger("removed",
                                            DictGet(connected_devices, Head(rem_keys)),
                                            "poll_removed")
                    /\ mpc' = "trigger"
               ELSE UNCHANGED <<connected_devices, trig, mpc>>
    /\ UNCHANGED <<platform, attached, udevq, stop_event, regLock, current_devices,
                   ev, detectFailed, cycleC, cycleNotifs, cycleRaised, prevD, rvars, xvars>>

\* if device.device_id not in self.connected_devices
ShouldAdd(d, devs) == d.device_id \notin Ids(devs)

\* One iteration of the add loop, or its end, where the lock is released.
PollAdded ==
    /\ mpc = "poll_added"
    /\ IF add_rest = <<>>
       THEN /\ regLock' = "free"
            /\ mpc' = "poll_sleep"
            /\ UNCHANGED <<add_rest, connected_devices, trig>>
       ELSE /\ add_rest' = Tail(add_rest)
            /\ regLock' = regLock
            /\ IF ShouldAdd(Head(add_rest), connected_devices)
               THEN /\ connected_devices' = DictPut(connected_devices, Head(add_rest))
                    /\ trig' = StartTrigger("added", Head(add_rest), "poll_added")
                    /\ mpc' = "trigger"
               ELSE UNCHANGED <<connected_devices, trig, mpc>>
    /\ UNCHANGED <<platform, attached, udevq, stop_event, current_devices, rem_keys,
                   ev, detectFailed, cycleC, cycleNotifs, cycleRaised, prevD, rvars, xvars>>

\* time.sleep(...) at the end of a cycle; the cycle's locals are dead.
PollSleep ==
    /\ mpc = "poll_sleep"
    /\ prevD' = <<Ids(current_devices)>>
    /\ current_devices' = <<>>
    /\ detectFailed' = FALSE
    /\ cycleC' = <<>>
    /\ cycleNotifs' = <<>>
    /\ cycleRaised' = {}
    /\ mpc' = "poll_loop"
    /\ UNCHANGED <<platform, attached, udevq, stop_event, connected_devices,
                   regLock, rem_keys, add_rest, trig, ev, rvars, xvars>>

\* The detection raises: logger.error of its except branch raised.  The
\* exception is caught by the except branch of the loop (line 373, line
\* 269 on Windows); no list was returned and the cycle does not run.
PollDetectRaises ==
    /\ mpc = "poll_detect"
    /\ mpc' = "detect_except"
    /\ UNCHANGED <<platform, attached, udevq, stop_event, connected_devices,
                   regLock, current_devices, rem_keys, add_rest, trig, ev, detectFailed,
                   cycleC, cycleNotifs, cycleRaised, prevD, rvars, xvars>>

\* The removal loop pops a device and logger.info (line 363, line 259 on
\* Windows) raises: the remove callbacks are not called, the with block
\* releases the lock and the rest of the cycle is skipped.
PollRemovedRaises ==
    /\ mpc = "poll_removed"
    /\ rem_keys # <<>>
    /\ ShouldRemove(Head(rem_keys), current_devices)
    /\ connected_devices' = DictPop(connected_devices, Head(rem_keys))
    /\ rem_keys' = <<>>
    /\ add_rest' = <<>>
    /\ regLock' = "free"
    /\ mpc' = "poll_except"
    /\ UNCHANGED <<platform, attached, udevq, stop_event, current_devices, trig,
                   ev, detectFailed, cycleC, cycleNotifs, cycleRaised, prevD, rvars, xvars>>

\* The add loop stores a device and logger.info (line 370, line 266 on
\* Windows) raises: the add callbacks are not called, the with block
\* releases the lock and the rest of the cycle is skipped.
PollAddedRaises ==
    /\ mpc = "poll_added"
    /\ add_rest # <<>>
    /\ ShouldAdd(Head(add_rest), connected_devices)
    /\ connected_devices' = DictPut(connected_devices, Head(add_rest))
    /\ rem_keys' = <<>>
    /\ add_rest' = <<>>
    /\ regLock' = "free"
    /\ mpc' = "poll_except"
    /\ UNCHANGED <<platform, attached, udevq, stop_event, current_devices, trig,
                   ev, detectFailed, cycleC, cycleNotifs, cycleRaised, prevD, rvars, xvars>>

\* The except branch of the polling loop after a cycle was cut short:
\* logger.error (line 374, line 270 on Windows) returns and the thread goes
\* on to its sleep.
PollExcept ==
    /\ mpc = "poll_except"
    /\ mpc' = "poll_sleep"
    /\ UNCHANGED <<platform, attached, udevq, stop_event, connected_devices,
                   regLock, current_devices, rem_keys, add_rest, trig, ev, detectFailed,
                   cycleC, cycleNotifs, cycleRaised, prevD, rvars, xvars>>

\* The except branch of the polling loop after the detection raised:
\* logger.error returns, the thread sleeps and tests the loop condition
\* again; no cycle has run on a detected list.
PollDetectExcept ==
    /\ mpc = "detect_except"
    /\ prevD' = <<>>
    /\ mpc' = "poll_loop"
    /\ UNCHANGED <<platform, attached, udevq, stop_event, connected_devices,
                   regLock, current_devices, rem_keys, add_rest, trig, ev, detectFailed,
                   cycleC, cycleNotifs, cycleRaised, rvars, xvars>>

\* logger.error of an except branch of a monitoring loop raises (the
\* polling loop: line 374, line 270 on Windows; the netlink monitor: line
\* 338, reached from the setup, from monitor.poll or from the inner except
\* branch): the exception leaves the monitoring function and
\* start_monitoring, the thread ends with stop_event unset.
MonitorDies ==
    /\ mpc \in {"poll_except", "detect_except", "lx_setup", "lx_poll", "lx_outer"}
    /\ mpc' = "crashed"
    /\ udevq' = <<>>
    /\ UNCHANGED <<platform, attached, stop_event, connected_devices,
                   regLock, current_devices, rem_keys, add_rest, trig, ev, detectFailed,
                   cycleC, cycleNotifs, cycleRaised, prevD, rvars, xvars>>

\* --- _monitor_linux_devices
\* pyudev.Context(), Monitor.from_netlink, filter_by, start: when one of
\* them raises, the outer except branch falls back to polling.
LxSetup ==
    /\ mpc = "lx_setup"
    /\ \E ok \in BOOLEAN : mpc' = IF ok THEN "lx_poll" ELSE "poll_loop"
    /\ current_devices' = <<>>
    /\ detectFailed' = FALSE
    /\ UNCHANGED <<platform, attached, udevq, stop_event, connected_devices,
                   regLock, rem_keys, add_rest, trig, ev, cycleC, cycleNotifs, cycleRaised, prevD,
                   rvars, xvars>>

\* monitor.poll(1) returns an event; then "if stop_event.is_set(): break",
\* after which the function returns and the events still queued are never
\* polled.
LxPollEvent ==
    /\ mpc = "lx_poll"
    /\ udevq # <<>>
    /\ udevq' = IF stop_event THEN <<>> ELSE Tail(udevq)
    /\ ev' = IF stop_event THEN NoEvent ELSE Head(udevq)
    /\ mpc' = IF stop_event THEN "exited" ELSE "lx_event"
    /\ cycleC' = <<>>
    /\ cycleNotifs' = <<>>
    /\ cycleRaised' = {}
    /\ UNCHANGED <<platform, attached, stop_event, connected_devices, regLock,
                   current_devices, rem_keys, add_rest, trig, detectFailed, prevD, rvars, xvars>>

\* monitor.poll(1) times out and returns None, the sentinel of
\* iter(lambda: monitor.poll(1), None): the for loop ends and the function
\* returns.
LxPollTimeout ==
    /\ mpc = "lx_poll"
    /\ udevq = <<>>
    /\ mpc' = "exited"
    /\ UNCHANGED <<platform, attached, udevq, stop_event, connected_devices,
                   regLock, current_devices, rem_keys, add_rest, trig, ev, detectFailed,
                   cycleC, cycleNotifs, cycleRaised, prevD, rvars, xvars>>

\* monitor.poll(1) raises (a socket error of the netlink monitor): the
\* outer except branch logs the error and calls _monitor_fallback; the
\* events still queued are never polled.
LxPollRaises ==
    /\ mpc = "lx_poll"
    /\ mpc' = "poll_loop"
    /\ udevq' = <<>>
    /\ UNCHANGED <<platform, attached, stop_event, connected_devices,
                   regLock, current_devices, rem_keys, add_rest, trig, ev, detectFailed,
                   cycleC, cycleNotifs, cycleRaised, prevD, rvars, xvars>>

\* action == 'add': after the settle delay (time.sleep(1)) the mount
\* point is looked up in /proc/mounts; without one the event is dropped.
LxLookup ==
    /\ mpc = "lx_event"
    /\ ev.action = "add"
    /\ IF ev.device \in attached
       THEN /\ mpc' = "lx_store"
            /\ ev' = ev
       ELSE /\ mpc' = "lx_poll"
            /\ ev' = NoEvent
    /\ UNCHANGED <<platform, attached, udevq, stop_event, connected_devices, regLock,
                   current_devices, rem_keys, add_rest, trig, detectFailed, cycleC,
                   cycleNotifs, cycleRaised, prevD, rvars, xvars>>

\* The look-up raises (open('/proc/mounts') fails, or a property of the
\* pyudev device cannot be read): the event is dropped and the inner
\* except branch (line 334) is entered.
LxLookupRaises ==
    /\ mpc = "lx_event"
    /\ ev.action = "add"
    /\ mpc' = "lx_except"
    /\ ev' = NoEvent
    /\ UNCHANGED <<platform, attached, udevq, stop_event, connected_devices, regLock,
                   current_devices, rem_keys, add_rest, trig, detectFailed, cycleC,
                   cycleNotifs, cycleRaised, prevD, rvars, xvars>>

\* The device that was found mounted is stored under the lock, the lock is
\* released, and the add callbacks are triggered.
LxAdd ==
    /\ mpc = "lx_store"
    /\ regLock = "free"
    /\ cycleC' = connected_devices
    /\ connected_devices' = DictPut(connected_devices, ev.device)
    /\ trig' = StartTrigger("added", ev.device, "lx_poll")
    /\ mpc' = "trigger"
    /\ ev' = NoEvent
    /\ UNCHANGED <<platform, attached, udevq, stop_event, regLock, current_devices,
                   rem_keys, add_rest, detectFailed, cycleNotifs, cycleRaised, prevD, rvars, xvars>>

\* The device is stored and logger.info of line 322 raises: the add
\* callbacks are not called and the inner except branch is entered.
LxAddRaises ==
    /\ mpc = "lx_store"
    /\ regLock = "free"
    /\ cycleC' = connected_devices
    /\ connected_devices' = DictPut(connected_devices, ev.device)
    /\ mpc' = "lx_except"
    /\ ev' = NoEvent
    /\ UNCHANGED <<platform, attached, udevq, stop_event, regLock, current_devices,
                   rem_keys, add_rest, trig, detectFailed, cycleNotifs, cycleRaised,
                   prevD, rvars, xvars>>

\* action == 'remove' when a call raises: a property of the pyudev device
\* cannot be read (lines 324-325) and nothing is popped; or the device is
\* popped under the lock and logger.info of line 331 raises, the remove
\* callbacks are not called and the with block releases the lock.  The
\* inner except branch is entered.
LxRemoveRaises ==
    /\ mpc = "lx_event"
    /\ ev.action = "remove"
    /\ \E popped \in BOOLEAN :
          /\ popped => (regLock = "free" /\ ev.device.device_id \in Ids(connected_devices))
          /\ connected_devices' = IF popped
                                  THEN DictPop(connected_devices, ev.device.device_id)
                                  ELSE connected_devices
          /\ cycleC' = IF popped THEN connected_devices ELSE cycleC
    /\ mpc' = "lx_except"
    /\ ev' = NoEvent
    /\ UNCHANGED <<platform, attached, udevq, stop_event, regLock, current_devices,
                   rem_keys, add_rest, trig, detectFailed, cycleNotifs, cycleRaised,
                   prevD, rvars, xvars>>

\* The inner except branch of the netlink loop: logger.error (line 335)
\* returns and the loop polls again.
LxExcept ==
    /\ mpc = "lx_except"
    /\ mpc' = "lx_poll"
    /\ UNCHANGED <<platform, attached, udevq, stop_event, connected_devices,
                   regLock, current_devices, rem_keys, add_rest, trig, ev, detectFailed,
                   cycleC, cycleNotifs, cycleRaised, prevD, rvars, xvars>>

\* logger.error of line 335 raises: the exception leaves the for loop and
\* is caught by the outer except branch (line 337); the events still
\* queued are never polled.
LxExceptRaises ==
    /\ mpc = "lx_except"
    /\ mpc' = "lx_outer"
    /\ udevq' = <<>>
    /\ UNCHANGED <<platform, attached, stop_event, connected_devices,
                   regLock, current_devices, rem_keys, add_rest, trig, ev, detectFailed,
                   cycleC, cycleNotifs, cycleRaised, prevD, rvars, xvars>>

\* The outer except branch: logger.error (line 338) returns and
\* _monitor_fallback is entered (line 340).
LxOuterExcept ==
    /\ mpc = "lx_outer"
    /\ mpc' = "poll_loop"
    /\ UNCHANGED <<platform, attached, udevq, stop_event, connected_devices,
                   regLock, current_devices, rem_keys, add_rest, trig, ev, detectFailed,
                   cycleC, cycleNotifs, cycleRaised, prevD, rvars, xvars>>

\* action == 'remove': under the lock, a connected device is popped and the
\* remove callbacks are triggered.
LxRemove ==
    /\ mpc = "lx_event"
    /\ ev.action = "remove"
    /\ regLock = "free"
    /\ IF ev.device.device_id \in Ids(connected_devices)
       THEN /\ cycleC' = connected_devices
            /\ connected_devices' = DictPop(connected_devices, ev.device.device_id)
            /\ trig' = StartTrigger("removed",
                                    DictGet(connected_devices, ev.device.device_id),
                                    "lx_unlock")
            /\ regLock' = "monitor"
            /\ mpc' = "trigger"
       ELSE /\ mpc' = "lx_poll"
            /\ UNCHANGED <<cycleC, connected_devices, trig, regLock>>
    /\ ev' = NoEvent
    /\ UNCHANGED <<platform, attached, udevq, stop_event, current_devices,
                   rem_keys, add_rest, detectFailed, cycleNotifs, cycleRaised, prevD, rvars, xvars>>

\* End of the "with self._lock" block of the remove branch.
LxUnlock ==
    /\ mpc = "lx_unlock"
    /\ regLock' = "free"
    /\ mpc' = "lx_poll"
    /\ UNCHANGED <<platform, attached, udevq, stop_event, connected_devices,
                   current_devices, rem_keys, add_rest, trig, ev, detectFailed, cycleC,
                   cycleNotifs, cycleRaised, prevD, rvars, xvars>>

\* ------------------------------------------------------------------
\* FileWatcher: one reconciler per connected device
\* ------------------------------------------------------------------
\* FileWatcher.__init__, before its thread runs.
WInit ==
    /\ handlers = {}
    /\ leaked = {}
    /\ wpc = "start"
    /\ wrest = <<>>

\* The FileWatcher at rest with the reconciler of DevA, its thread in the
\* wait loop: for the runs of one reconciler alone.
WIdle ==
    /\ handlers = {DevA.device_id}
    /\ leaked = {}
    /\ wpc = "loop"
    /\ wrest = <<>>

\* _handle_device_added: a handler and an observer are created and started,
\* then stored under the device_id; an entry already stored under that id is
\* replaced, and the reconciler it referred to keeps running.
HandlersAfterAdded(h, d) == h \cup {d.device_id}

LeakedAfterAdded(l, h, d) == IF d.device_id \in h THEN l \cup {d.device_id} ELSE l

\* _handle_device_removed: the entries of the device_id are popped and the
\* handler and observer popped, if any, are stopped.
HandlersAfterRemoved(h, d) == h \ {d.device_id}

\* The callback the FileWatcher registered is called: it is the first of
\* the callback lists; a further subscriber returns.
FwTriggerCallback ==
    /\ mpc = "trigger"
    /\ trig.i <= NumSubs
    /\ trig' = AfterCallback(trig, "ok")
    /\ IF trig.i = 1
       THEN IF trig.kind = "added"
            THEN /\ handlers' = HandlersAfterAdded(handlers, trig.device)
                 /\ leaked' = LeakedAfterAdded(leaked, handlers, trig.device)
            ELSE /\ handlers' = HandlersAfterRemoved(handlers, trig.device)
                 /\ leaked' = leaked
       ELSE UNCHANGED <<handlers, leaked>>
    /\ UNCHANGED <<platform, attached, udevq, stop_event, connected_devices,
                   regLock, mpc, current_devices, rem_keys, add_rest, ev, detectFailed,
                   cycleC, cycleNotifs, cycleRaised, prevD, wpc, wrest, rvars, pvars, lvars, cvars, avars, gvars>>

\* The callback of the FileWatcher raises: a logger call in it raised.
\* logger.info of its first line (268, 291) raises before the dicts are
\* touched; logger.info of its last line (284, 307) raises after they
\* were updated, and logger.error of its except branch (287, 310) raises
\* as well.  In
\* the registry, logger.error of line 72 or 80 then returns and the next
\* callback is called (caught), or it raises too and the exception leaves
\* the notification and the with block around it.
FwTriggerCallbackRaises ==
    /\ mpc = "trigger"
    /\ trig.i = 1
    /\ \E done \in BOOLEAN, caught \in BOOLEAN :
          /\ handlers' = IF ~done THEN handlers
                         ELSE IF trig.kind = "added"
                         THEN HandlersAfterAdded(handlers, trig.device)
                         ELSE HandlersAfterRemoved(handlers, trig.device)
          /\ leaked' = IF done /\ trig.kind = "added"
                       THEN LeakedAfterAdded(leaked, handlers, trig.device)
                       ELSE leaked
          /\ trig' = IF caught THEN AfterCallback(trig, "raise") ELSE NoTrig
          /\ regLock' = IF caught THEN regLock ELSE "free"
          /\ rem_keys' = IF caught THEN rem_keys ELSE <<>>
          /\ add_rest' = IF caught THEN add_rest ELSE <<>>
          /\ mpc' = IF caught THEN mpc ELSE ExceptOf(trig.ret)
    /\ UNCHANGED <<platform, attached, udevq, stop_event, connected_devices,
                   current_devices, ev, detectFailed, cycleC, cycleNotifs, cycleRaised,
                   prevD, wpc, wrest, rvars, pvars, lvars, cvars, avars, gvars>>

\* FileWatcher.start_monitoring: self.usb_monitor.get_connected_devices(),
\* which takes the registry lock and returns the values of the dict.
WatcherStart ==
    /\ wpc = "start"
    /\ regLock = "free"
    /\ wrest' = connected_devices
    /\ wpc' = "setup"
    /\ UNCHANGED <<handlers, leaked, rvars, mvars, pvars, lvars, cvars, avars, gvars>>

\* One iteration of "for device in ...: self._handle_device_added(device)",
\* or the end of the loop.
WatcherSetup ==
    /\ wpc = "setup"
    /\ IF wrest = <<>>
       THEN /\ wpc' = "loop"
            /\ UNCHANGED <<handlers, leaked, wrest>>
       ELSE /\ handlers' = HandlersAfterAdded(handlers, Head(wrest))
            /\ leaked' = LeakedAfterAdded(leaked, handlers, Head(wrest))
            /\ wrest' = Tail(wrest)
            /\ wpc' = wpc
    /\ UNCHANGED <<rvars, mvars, pvars, lvars, cvars, avars, gvars>>

\* while not stop_event.is_set(): time.sleep(1) ends.
WatcherLoopExit ==
    /\ wpc = "loop"
    /\ stop_event
    /\ wpc' = "stopping"
    /\ UNCHANGED <<handlers, leaked, wrest, rvars, mvars, pvars, lvars, cvars, avars, gvars>>

\* stop_monitoring: every stored handler and observer is stopped and the
\* dicts are cleared.
StopMonitoring ==
    /\ wpc = "stopping"
    /\ handlers' = {}
    /\ wpc' = "done"
    /\ UNCHANGED <<leaked, wrest, rvars, mvars, pvars, lvars, cvars, avars, gvars>>

\* logger.info of the first line of FileWatcher.start_monitoring (314)
\* raises: the line is outside the try block, the exception leaves the
\* function and the FileWatcherThread ends before it has read the
\* connected devices.
WatcherStartRaises ==
    /\ wpc = "start"
    /\ wpc' = "crashed"
    /\ UNCHANGED <<handlers, leaked, wrest, rvars, mvars, pvars, lvars, cvars, avars, gvars>>

\* A logger call of _handle_device_added raises in the loop of
\* FileWatcher.start_monitoring (317-318, outside the try block):
\* logger.info of line 268, before anything is set up, or logger.info of
\* line 284, after the pair was stored, and then logger.error of line 287
\* as well.  The exception leaves the loop and the function, the thread ends
\* and the remaining devices are not set up; stop_monitoring is not run.
WatcherSetupRaises ==
    /\ wpc = "setup"
    /\ wrest # <<>>
    /\ \E done \in BOOLEAN :
          /\ handlers' = IF done THEN HandlersAfterAdded(handlers, Head(wrest))
                         ELSE handlers
          /\ leaked' = IF done THEN LeakedAfterAdded(leaked, handlers, Head(wrest))
                       ELSE leaked
    /\ wrest' = <<>>
    /\ wpc' = "crashed"
    /\ UNCHANGED <<rvars, mvars, pvars, lvars, cvars, avars, gvars>>

\* logger.info of the first line of stop_monitoring (329) raises, before
\* the lock is taken: nothing is stopped, the dicts keep their entries and
\* the thread ends.  (When logger.info of the last line, 357, raises, the
\* dicts have been cleared: the state is that of StopMonitoring.)
StopMonitoringRaises ==
    /\ wpc = "stopping"
    /\ wpc' = "crashed"
    /\ UNCHANGED <<handlers, leaked, wrest, rvars, mvars, pvars, lvars, cvars, avars, gvars>>

\* The steps of the FileWatcherThread in which a logger call raises.
WatcherFaults == WatcherStartRaises \/ WatcherSetupRaises \/ StopMonitoringRaises

\* _handle_device_added when observer.schedule or observer.start raises:
\* the handler was constructed and its finalizer thread started; the except
\* branch logs the error, the dicts are not touched and the handler is not
\* stopped.
LeakedAfterFailedSetup(l, d) == l \cup {d.device_id}

\* The add callback of the FileWatcher fails in the observer's setup and
\* returns normally.
FwTriggerCallbackFails ==
    /\ mpc = "trigger"
    /\ trig.i = 1
    /\ trig.kind = "added"
    /\ trig' = AfterCallback(trig, "ok")
    /\ leaked' = LeakedAfterFailedSetup(leaked, trig.device)
    /\ UNCHANGED <<platform, attached, udevq, stop_event, connected_devices,
                   regLock, mpc, current_devices, rem_keys, add_rest, ev, detectFailed,
                   cycleC, cycleNotifs, cycleRaised, prevD, handlers, wpc, wrest,
                   rvars, pvars, lvars, cvars, avars, gvars>>

\* The same failure in the loop of FileWatcher.start_monitoring.
WatcherSetupFails ==
    /\ wpc = "setup"
    /\ wrest # <<>>
    /\ leaked' = LeakedAfterFailedSetup(leaked, Head(wrest))
    /\ wrest' = Tail(wrest)
    /\ UNCHANGED <<handlers, wpc, rvars, mvars, pvars, lvars, cvars, avars, gvars>>

\* ------------------------------------------------------------------
\* USBMonitor: the read accessors, called from another thread
\* ------------------------------------------------------------------
\* No list has been returned yet.
NoSnapshot == [live |-> FALSE, value |-> <<>>]

AIdle == snapshot = NoSnapshot /\ nReads = 0

\* (Variant: the accessor does not wait for the lock.)
AccessorEntersUnlocked(lock) == TRUE

\* with self._lock: the accessor enters when no thread holds the lock.
AccessorEnters(lock) == lock = "free"

\* return list(self.connected_devices.values()): a new list of the values
\* (live is FALSE: the list does not follow the dict).
GetConnectedDevices(devices) == [live |-> FALSE, value |-> devices]

\* What the caller finds in the list it was given.
Observed == IF snapshot.live THEN connected_devices ELSE snapshot.value

\* get_connected_devices() called from a thread other than the monitor's.
ReaderGet ==
    /\ nReads < MaxReads
    /\ AccessorEnters(regLock)
    /\ snapshot' = GetConnectedDevices(connected_devices)
    /\ nReads' = nReads + 1
    /\ UNCHANGED <<rvars, mvars, wvars, pvars, lvars, cvars, gvars>>

\* ------------------------------------------------------------------
\* The policy evaluator called on its own
\* ------------------------------------------------------------------
\* "HH:00" for an hour, as the configuration file spells it.
DigitChar(d) ==
    CASE d = 0 -> "0" [] d = 1 -> "1" [] d = 2 -> "2" [] d = 3 -> "3" [] d = 4 -> "4"
      [] d = 5 -> "5" [] d = 6 -> "6" [] d = 7 -> "7" [] d = 8 -> "8" [] d = 9 -> "9"

HourText(h) == <<DigitChar(h \div 10), DigitChar(h % 10), ":", "0", "0">>

ExtTxt == <<".", "t", "x", "t">>

\* Settings of the monitoring section: include and exclude lists, size bounds
\* (0 stands for "no bound").
IncludeLists == {<< <<"*">> >>, <<ExtTxt>>, << <<"*">>, ExtTxt >>}
ExcludeLists == {<<>>, <<ExtTmp>>, <<ExtTmp, ExtLock>>, << <<"t", "m", "p">> >>}
MinSizes == {0, 1000}
MaxSizes == {0, 2000}

MonitoringConfigs ==
    {[ConfigSession EXCEPT !.include_file_extensions = inc,
                           !.exclude_file_extensions = exc,
                           !.min_file_size_bytes = mn,
                           !.max_file_size_bytes = mx] :
        inc \in IncludeLists, exc \in ExcludeLists, mn \in MinSizes, mx \in MaxSizes}

\* Settings of the time-based alerts: restricted hours and switches.
RestrictedHours == {<<18, 7>>, <<9, 17>>, <<7, 7>>, <<0, 23>>}

TimeConfigs ==
    {[ConfigSession EXCEPT !.tba_enabled = en,
                           !.weekend_alerts = we,
                           !.restricted_start = HourText(h[1]),
                           !.restricted_end = HourText(h[2])] :
        en \in BOOLEAN, we \in BOOLEAN, h \in RestrictedHours}

\* File names the eligibility check is asked about.
PolicyPaths ==
    {<< <<"a", ".", "t", "m", "p">> >>,
     << <<"a", ".", "t", "x", "t">> >>,
     << <<"a", ".", "T", "M", "P">> >>,
     << <<"a", ".", "t", "x", "t", ".", "t", "m", "p">> >>,
     << <<".", "t", "m", "p">> >>,
     << <<"a">> >>}

\* What is at the path: nothing, a directory, or a regular file of a size.
PolicyFiles ==
    {NoFile, [kind |-> "dir", size |-> 4096]}
        \cup {[kind |-> "file", size |-> n] : n \in {0, 500, 999, 1000, 1001, 2000, 2001}}

\* datetime.now(): every hour of every day of the week (0 = Monday).
Hours == 0..23
Weekdays == 0..6
PolicyClocks == {[hour |-> h, weekday |-> d] : h \in Hours, d \in Weekdays}

NoClock == [hour |-> 0, weekday |-> 0]

NoCall ==
    [fn |-> "none", cfg |-> ConfigSession, path |-> <<>>, f |-> NoFile,
     sizeOk |-> TRUE, clock |-> NoClock, operation |-> "none", final |-> FALSE]

ShouldMonitorCalls ==
    {[fn |-> "_should_monitor_file", cfg |-> c, path |-> p, f |-> f,
      sizeOk |-> ok, clock |-> NoClock, operation |-> "none", final |-> FALSE] :
        c \in MonitoringConfigs, p \in PolicyPaths, f \in PolicyFiles, ok \in BOOLEAN}

TimeAlertCalls ==
    {[fn |-> "_check_time_based_alerts", cfg |-> c, path |-> <<>>, f |-> NoFile,
      sizeOk |-> TRUE, clock |-> k, operation |-> "none", final |-> FALSE] :
        c \in TimeConfigs, k \in PolicyClocks}

\* Settings of the alerts section read by the suspicious predicate.
SuspiciousLists == {<<ExtZip, ExtDocx>>, <<ExtTmp>>, <<>>}
AlertThresholds == {0, 1}

SuspiciousConfigs ==
    {[ConfigSession EXCEPT !.suspicious_extensions = l, !.alert_threshold_mb = t] :
        l \in SuspiciousLists, t \in AlertThresholds}

\* Paths on the device of the session the alert predicates are asked about.
AlertPaths ==
    {PathOf("f1"), PathOf("f2"),
     << <<"m">>, <<"a">>, <<"b", ".", "z", "i", "p">> >>,
     << <<"m">>, <<"a">>, <<"d", ".", "d", "o", "c", "x", ".", "t", "x", "t">> >>,
     << <<"m">>, <<"a">>, <<"z", "i", "p">> >>}

\* What is at the path: nothing, a directory, or a regular file whose size
\* is around a threshold.
AlertFiles ==
    {NoFile, [kind |-> "dir", size |-> 4096]}
        \cup {[kind |-> "file", size |-> n] : n \in {0, 1, MB - 1, MB, MB + 1, 2 * MB}}

SuspiciousCalls ==
    {[fn |-> "_is_suspicious_file", cfg |-> c, path |-> p, f |-> f,
      sizeOk |-> ok, clock |-> NoClock, operation |-> "none", final |-> FALSE] :
        c \in SuspiciousConfigs, p \in AlertPaths, f \in AlertFiles, ok \in BOOLEAN}

\* Settings of the alerts section read by one classification pass.
LargeThresholds == {0, 1, 500}

PassConfigs ==
    {[ConfigSession EXCEPT !.suspicious_extensions = l,
                           !.alert_threshold_mb = t,
                           !.large_transfer_alert = la,
                           !.large_transfer_threshold_mb = lt,
                           !.tba_enabled = en] :
        l \in {<<ExtZip, ExtDocx>>, <<>>}, t \in AlertThresholds, la \in BOOLEAN,
        lt \in LargeThresholds, en \in BOOLEAN}

PassPaths == {PathOf("f1"), PathOf("f2")}
PassFiles == {NoFile} \cup {[kind |-> "file", size |-> n] : n \in {1, MB, MB + 1, 2 * MB}}
PassClocks == {[hour |-> 20, weekday |-> 2], [hour |-> 12, weekday |-> 2],
               [hour |-> 12, weekday |-> 6]}
PassOperations == {"created", "deleted"}

LogOperationCalls ==
    {[fn |-> "_log_file_operation", cfg |-> c, path |-> p, f |-> f,
      sizeOk |-> TRUE, clock |-> k, operation |-> op, final |-> fin] :
        c \in PassConfigs, p \in PassPaths, f \in PassFiles, k \in PassClocks,
        op \in PassOperations, fin \in BOOLEAN}

\* The pass is observed on its own, outside a reconciler.
NoEntry == [path |-> "none", eid |-> 0, cur |-> -1, latest |-> 0, seen |-> 0]

\* No call of the evaluator is being observed.
PIdle == call = NoCall /\ returned = FALSE /\ result = FALSE /\ emitted = <<>>

\* A call is about to be made, with any of the inputs above.
PInit ==
    /\ call \in ShouldMonitorCalls \cup TimeAlertCalls \cup SuspiciousCalls \cup LogOperationCalls
    /\ returned = FALSE
    /\ result = FALSE
    /\ emitted = <<>>

\* self._should_monitor_file(path) returns.
CallShouldMonitorFile ==
    /\ call.fn = "_should_monitor_file"
    /\ ~returned
    /\ result' = ShouldMonitorFile(call.cfg, call.path, call.f, call.sizeOk)
    /\ returned' = TRUE
    /\ UNCHANGED <<call, emitted, rvars, mvars, wvars, lvars, cvars, avars, gvars>>

\* self._check_time_based_alerts() returns.
CallCheckTimeBasedAlerts ==
    /\ call.fn = "_check_time_based_alerts"
    /\ ~returned
    /\ result' = CheckTimeBasedAlerts(call.cfg, call.clock)
    /\ returned' = TRUE
    /\ UNCHANGED <<call, emitted, rvars, mvars, wvars, lvars, cvars, avars, gvars>>

\* self._is_suspicious_file(path) returns.
CallIsSuspiciousFile ==
    /\ call.fn = "_is_suspicious_file"
    /\ ~returned
    /\ result' = IsSuspiciousFile(call.cfg, call.path, call.f, call.sizeOk)
    /\ returned' = TRUE
    /\ UNCHANGED <<call, emitted, rvars, mvars, wvars, lvars, cvars, avars, gvars>>

\* self._log_file_operation(operation, path, final) returns.
CallLogFileOperation ==
    /\ call.fn = "_log_file_operation"
    /\ ~returned
    /\ emitted' = LogFileOperation(call.cfg, call.clock, DevA, call.operation, call.path,
                                   call.f, call.final, NoEntry)
    /\ returned' = TRUE
    /\ UNCHANGED <<call, result, rvars, mvars, wvars, lvars, cvars, avars, gvars>>

PNext ==
    \/ CallShouldMonitorFile
    \/ CallCheckTimeBasedAlerts
    \/ CallIsSuspiciousFile
    \/ CallLogFileOperation

\* ------------------------------------------------------------------
\* utils/logger.py: SecureFileHandler and verify_log_integrity
\* ------------------------------------------------------------------
\* Bytes of a log file: 0 is the line terminator, 1 and 2 are the bytes of
\* the formatted records.
Bytes == {0, 1, 2}
Terminator == <<0>>
Messages == {<<1>>, <<2>>, <<1, 2>>}

\* The header line setup_logger writes into a new transfer log.
HeaderLine == <<2, 0>>

\* hashlib.sha256(content).hexdigest(): a number that determines the
\* content, computed byte by byte.
RECURSIVE Sha256(_)
Sha256(content) ==
    IF content = <<>> THEN 1
    ELSE 3 * Sha256(SubSeq(content, 1, Len(content) - 1)) + content[Len(content)]

\* SecureFileHandler._compute_file_hash on an existing log file.
ComputeFileHash(content) == Sha256(content)

NoHash == [exists |-> FALSE, digest |-> 0]

\* SecureFileHandler._save_hash: the digest of the log file is written to
\* the hash file.
SaveHash(content) == [exists |-> TRUE, digest |-> ComputeFileHash(content)]

\* RotatingFileHandler.shouldRollover: the record and its terminator would
\* reach maxBytes.
ShouldRollover(content, msg) == Len(content) + Len(msg \o Terminator) >= MaxBytes

\* RotatingFileHandler.doRollover: the log file becomes <log>.1, older
\* backups move up and the oldest is removed.
RolledBackups(backups, content) ==
    SubSeq(<<content>> \o backups, 1, IF Len(backups) < BackupCount
                                       THEN Len(backups) + 1 ELSE BackupCount)

\* The hash file between open(self.hash_file, 'w'), which empties it, and
\* the write of the digest: no digest is in it.
EmptyHashFile == [exists |-> TRUE, digest |-> 0]

\* verify_log_integrity, lines 168-177: the digest of the log file is
\* compared with the text read from the hash file.
CompareHash(saved, content) ==
    IF saved # Sha256(content) THEN "mismatch" ELSE "verified"

\* The finalizer threads of two attached devices.
Writers == {"r1", "r2"}

\* The thread that logs in the runs of one log file.
LogWriter == "r1"

\* No log file is being observed.
LIdle ==
    /\ lfile = <<>> /\ lbackups = <<>> /\ lhash = NoHash /\ sealed = <<>>
    /\ current_hash = 0
    /\ nAppends = 0 /\ nTampers = 0
    /\ vpc = "idle" /\ saved_hash = 0 /\ verdict = "none" /\ overlapped = FALSE

\* The log file of the day and its hash file when setup_logger has built
\* the handlers (mode 'a', self.current_hash = None).  In a new directory
\* the application log is created empty and the transfer log gets its
\* header line (line 107), neither with a hash file.  When the program is
\* started again on the same day the files of the earlier run are there:
\* the records it appended, the header not written again, and the hash
\* file its last append left.  records are the lines in the file.
AppLogStarts ==
    {[file |-> <<>>, hash |-> NoHash, records |-> <<>>],
     [file |-> <<1, 0>>, hash |-> SaveHash(<<1, 0>>), records |-> << <<1>> >>]}

TransferLogStarts ==
    {[file |-> HeaderLine, hash |-> NoHash, records |-> << <<2>> >>],
     [file |-> HeaderLine \o <<1, 0>>, hash |-> SaveHash(HeaderLine \o <<1, 0>>),
      records |-> << <<2>>, <<1>> >>]}

LInit ==
    /\ \E s \in AppLogStarts \cup TransferLogStarts :
          /\ lfile = s.file
          /\ lhash = s.hash
    /\ lbackups = <<>>
    /\ current_hash = 0
    /\ sealed = lfile
    /\ nAppends = 0
    /\ nTampers = 0
    /\ vpc = "idle"
    /\ saved_hash = 0
    /\ verdict = "none"
    /\ overlapped = FALSE

\* No thread is logging.
CIdle ==
    /\ hlock = "free"
    /\ tpc = [t \in Writers |-> "idle"]
    /\ tmsg = [t \in Writers |-> <<>>]
    /\ wbuf = <<>>
    /\ written = <<>>
    /\ tsnap = [t \in Writers |-> <<>>]

\* The transfer log when setup_logger has built its handler: new with its
\* header line, or the one of an earlier run of the day.
CInit ==
    /\ \E s \in TransferLogStarts :
          /\ lfile = s.file
          /\ lhash = s.hash
          /\ written = s.records
    /\ lbackups = <<>>
    /\ current_hash = 0
    /\ sealed = lfile
    /\ nAppends = 0
    /\ nTampers = 0
    /\ vpc = "idle"
    /\ saved_hash = 0
    /\ verdict = "none"
    /\ overlapped = FALSE
    /\ hlock = "free"
    /\ tpc = [t \in Writers |-> "idle"]
    /\ tmsg = [t \in Writers |-> <<>>]
    /\ wbuf = <<>>
    /\ tsnap = [t \in Writers |-> <<>>]

\* What an operation on the log file leaves alone.
OutsideLog == <<rvars, mvars, wvars, pvars, avars, gvars>>

\* What a step of a logging thread leaves alone in the verifying thread.
VerifierUnchanged == UNCHANGED <<vpc, saved_hash, overlapped>>

\* doRollover has renamed the log file and not yet opened the new one.
LogFileExists == \A t \in Writers : tpc[t] # "reopen"

\* ------------------------------------------------------------------
\* Threads logging through one SecureFileHandler
\* ------------------------------------------------------------------
\* Positions of a thread inside Handler.handle:
\*   "acquire"          self.acquire()
\*   "rollover"         shouldRollover(record): the size of the file is read
\*   "do_rollover"      doRollover: the stream is closed, the files renamed
\*   "reopen"           doRollover: self.stream = self._open()
\*   "roll_hash"        doRollover: _save_hash reads the log file  (line 59)
\*   "roll_hash_open"   _save_hash: open(self.hash_file, 'w')
\*   "roll_hash_write"  _save_hash: the digest is written
\*   "write"            stream.write(msg + self.terminator)
\*   "flush"            self.flush()
\*   "hash"             emit: _save_hash reads the log file        (line 54)
\*   "hash_open"        _save_hash: open(self.hash_file, 'w')
\*   "hash_write"       _save_hash: the digest is written
\*   "release"          self.release()
\* logger.info / logger.warning / log_file_transfer: the record is
\* formatted and handed to the handler.
LogCall(t, msg) ==
    /\ tpc[t] = "idle"
    /\ nAppends < MaxAppends
    /\ nAppends' = nAppends + 1
    /\ tmsg' = [tmsg EXCEPT ![t] = msg]
    /\ tpc' = [tpc EXCEPT ![t] = "acquire"]
    /\ overlapped' = (overlapped \/ vpc # "idle")
    /\ UNCHANGED <<lfile, lbackups, lhash, current_hash, sealed, nTampers, verdict,
                   vpc, saved_hash, hlock, wbuf, written, tsnap, OutsideLog>>

\* (Variant: handle() calls emit without taking the handler's lock.)
HandleAcquireUnlocked(t) ==
    /\ tpc[t] = "acquire"
    /\ hlock' = t
    /\ tpc' = [tpc EXCEPT ![t] = "rollover"]
    /\ UNCHANGED <<lvars, tmsg, wbuf, written, tsnap, OutsideLog>>

\* Handler.handle: self.acquire() before emit.
HandleAcquire(t) ==
    /\ tpc[t] = "acquire"
    /\ hlock = "free"
    /\ hlock' = t
    /\ tpc' = [tpc EXCEPT ![t] = "rollover"]
    /\ UNCHANGED <<lvars, tmsg, wbuf, written, tsnap, OutsideLog>>

\* RotatingFileHandler.emit: if self.shouldRollover(record).  The stream
\* is positioned at the end of the file and the size it has now decides.
EmitShouldRollover(t) ==
    /\ tpc[t] = "rollover"
    /\ tpc' = [tpc EXCEPT ![t] = IF ShouldRollover(lfile, tmsg[t])
                                  THEN "do_rollover" ELSE "write"]
    /\ UNCHANGED <<lvars, hlock, tmsg, wbuf, written, tsnap, OutsideLog>>

\* SecureFileHandler.doRollover, super().doRollover(): the stream is
\* closed, the backups move up and the log file, as it is by now, becomes
\* <log>.1.  Until the stream is opened again there is no log file.
DoRollover(t) ==
    /\ tpc[t] = "do_rollover"
    /\ lbackups' = RolledBackups(lbackups, lfile)
    /\ lfile' = <<>>
    /\ verdict' = "none"
    /\ tpc' = [tpc EXCEPT ![t] = "reopen"]
    /\ UNCHANGED <<lhash, current_hash, sealed, nAppends, nTampers, hlock, tmsg, wbuf,
                   written, tsnap, OutsideLog>>
    /\ VerifierUnchanged

\* doRollover: self.stream = self._open() creates the new, empty log file.
RolloverReopen(t) ==
    /\ tpc[t] = "reopen"
    /\ tpc' = [tpc EXCEPT ![t] = "roll_hash"]
    /\ verdict' = "none"
    /\ UNCHANGED <<lfile, lbackups, lhash, current_hash, sealed, nAppends, nTampers,
                   hlock, tmsg, wbuf, written, tsnap, OutsideLog>>
    /\ VerifierUnchanged

\* StreamHandler.emit: stream.write(msg + self.terminator)
EmitWrite(t) ==
    /\ tpc[t] = "write"
    /\ wbuf' = wbuf \o tmsg[t] \o Terminator
    /\ written' = Append(written, tmsg[t])
    /\ tpc' = [tpc EXCEPT ![t] = "flush"]
    /\ UNCHANGED <<lvars, hlock, tmsg, tsnap, OutsideLog>>

\* (Variant: emit returns after the write, without _save_hash.)
EmitFlushUnhashed(t) ==
    /\ tpc[t] = "flush"
    /\ lfile' = lfile \o wbuf
    /\ wbuf' = <<>>
    /\ tsnap' = [tsnap EXCEPT ![t] = lfile']
    /\ tpc' = [tpc EXCEPT ![t] = "release"]
    /\ verdict' = "none"
    /\ UNCHANGED <<lbackups, lhash, current_hash, sealed, nAppends, nTampers, hlock,
                   tmsg, written, OutsideLog>>
    /\ VerifierUnchanged

\* StreamHandler.emit: self.flush()
EmitFlush(t) ==
    /\ tpc[t] = "flush"
    /\ lfile' = lfile \o wbuf
    /\ wbuf' = <<>>
    /\ tsnap' = [tsnap EXCEPT ![t] = lfile']
    /\ tpc' = [tpc EXCEPT ![t] = "hash"]
    /\ verdict' = "none"
    /\ UNCHANGED <<lbackups, lhash, current_hash, sealed, nAppends, nTampers, hlock,
                   tmsg, written, OutsideLog>>
    /\ VerifierUnchanged

\* _save_hash, line 35: self.current_hash = self._compute_file_hash()
SaveHashCompute(t) ==
    /\ tpc[t] \in {"roll_hash", "hash"}
    /\ current_hash' = ComputeFileHash(lfile)
    /\ sealed' = lfile
    /\ tpc' = [tpc EXCEPT ![t] = IF tpc[t] = "hash" THEN "hash_open" ELSE "roll_hash_open"]
    /\ UNCHANGED <<lfile, lbackups, lhash, nAppends, nTampers, verdict, hlock, tmsg,
                   wbuf, written, tsnap, OutsideLog>>
    /\ VerifierUnchanged

\* _save_hash, line 37: open(self.hash_file, 'w') creates the hash file or
\* empties it.
SaveHashOpen(t) ==
    /\ tpc[t] \in {"roll_hash_open", "hash_open"}
    /\ lhash' = EmptyHashFile
    /\ verdict' = "none"
    /\ tpc' = [tpc EXCEPT ![t] = IF tpc[t] = "hash_open" THEN "hash_write"
                                  ELSE "roll_hash_write"]
    /\ UNCHANGED <<lfile, lbackups, current_hash, sealed, nAppends, nTampers, hlock,
                   tmsg, wbuf, written, tsnap, OutsideLog>>
    /\ VerifierUnchanged

\* _save_hash, line 38: the digest is written and the hash file closed.
\* After doRollover's _save_hash the record is written; after emit's the
\* handler returns.
SaveHashWrite(t) ==
    /\ tpc[t] \in {"roll_hash_write", "hash_write"}
    /\ lhash' = [exists |-> TRUE, digest |-> current_hash]
    /\ verdict' = "none"
    /\ tpc' = [tpc EXCEPT ![t] = IF tpc[t] = "hash_write" THEN "release" ELSE "write"]
    /\ UNCHANGED <<lfile, lbackups, current_hash, sealed, nAppends, nTampers, hlock,
                   tmsg, wbuf, written, tsnap, OutsideLog>>
    /\ VerifierUnchanged

\* Handler.handle: self.release() after emit.
HandleRelease(t) ==
    /\ tpc[t] = "release"
    /\ hlock' = IF hlock = t THEN "free" ELSE hlock
    /\ tpc' = [tpc EXCEPT ![t] = "idle"]
    /\ UNCHANGED <<lvars, tmsg, wbuf, written, tsnap, OutsideLog>>

\* One step of thread t inside a logging call.
HandlerStep(t) ==
    \/ HandleAcquire(t)
    \/ EmitShouldRollover(t)
    \/ DoRollover(t)
    \/ RolloverReopen(t)
    \/ SaveHashCompute(t)
    \/ SaveHashOpen(t)
    \/ SaveHashWrite(t)
    \/ EmitWrite(t)
    \/ EmitFlush(t)
    \/ HandleRelease(t)

CNext ==
    \E t \in Writers :
        \/ \E msg \in Messages : LogCall(t, msg)
        \/ HandlerStep(t)

\* ------------------------------------------------------------------
\* One log file: a logging thread, other programs, and the log viewer
\* ------------------------------------------------------------------
\* What a change from outside leaves alone.
TamperUnchanged ==
    UNCHANGED <<lbackups, lhash, current_hash, sealed, nAppends, vpc, saved_hash,
                overlapped, OutsideLog, cvars>>

\* The last byte of the log file is cut off by another program.
TruncateOneByte ==
    /\ nTampers < MaxTampers
    /\ LogFileExists
    /\ lfile # <<>>
    /\ lfile' = SubSeq(lfile, 1, Len(lfile) - 1)
    /\ nTampers' = nTampers + 1
    /\ verdict' = "none"
    /\ TamperUnchanged

\* A byte of the log file is overwritten by another program.
OverwriteByte(i, b) ==
    /\ nTampers < MaxTampers
    /\ LogFileExists
    /\ i \in 1..Len(lfile)
    /\ lfile' = [lfile EXCEPT ![i] = b]
    /\ nTampers' = nTampers + 1
    /\ verdict' = "none"
    /\ TamperUnchanged

\* A byte is added to the log file by another program.
AppendByte(b) ==
    /\ nTampers < MaxTampers
    /\ LogFileExists
    /\ lfile' = Append(lfile, b)
    /\ nTampers' = nTampers + 1
    /\ verdict' = "none"
    /\ TamperUnchanged

\* What a step of verify_log_integrity leaves alone.
FilesUnchanged ==
    UNCHANGED <<lfile, lbackups, lhash, current_hash, sealed, nAppends, nTampers,
                OutsideLog, cvars>>

\* A logging call is under way in some thread.
Appending == \E t \in Writers : tpc[t] # "idle"

\* verify_log_integrity, line 160: os.path.exists(hash_file); without a
\* hash file the call returns "Hash file missing".
VerifyExists ==
    /\ vpc = "idle"
    /\ IF lhash.exists
       THEN /\ vpc' = "read_hash"
            /\ verdict' = "none"
       ELSE /\ vpc' = "idle"
            /\ verdict' = "missing"
    /\ overlapped' = Appending
    /\ UNCHANGED saved_hash
    /\ FilesUnchanged

\* verify_log_integrity, lines 164-165: the hash file is read.
VerifyReadHash ==
    /\ vpc = "read_hash"
    /\ saved_hash' = lhash.digest
    /\ vpc' = "read_log"
    /\ overlapped' = (overlapped \/ Appending)
    /\ UNCHANGED verdict
    /\ FilesUnchanged

\* verify_log_integrity, lines 168-177: the log file is read and its
\* digest compared; open raises when a rollover has just renamed the file.
VerifyReadLog ==
    /\ vpc = "read_log"
    /\ verdict' = IF LogFileExists THEN CompareHash(saved_hash, lfile) ELSE "error"
    /\ saved_hash' = 0
    /\ vpc' = "idle"
    /\ overlapped' = (overlapped \/ Appending)
    /\ FilesUnchanged

LNext ==
    \/ \E msg \in Messages : LogCall(LogWriter, msg)
    \/ HandlerStep(LogWriter)
    \/ TruncateOneByte
    \/ \E i \in 1..Len(lfile), b \in Bytes : OverwriteByte(i, b)
    \/ \E b \in Bytes : AppendByte(b)
    \/ VerifyExists
    \/ VerifyReadHash
    \/ VerifyReadLog

\* ------------------------------------------------------------------
\* Specifications
\* ------------------------------------------------------------------
\* The registry at rest, for the runs of the reconciler alone.
MIdle ==
    /\ platform = "Darwin"
    /\ attached = {DevA}
    /\ udevq = <<>>
    /\ stop_event = FALSE
    /\ connected_devices = <<DevA>>
    /\ regLock = "free"
    /\ mpc = "poll_loop"
    /\ current_devices = <<>>
    /\ rem_keys = <<>>
    /\ add_rest = <<>>
    /\ trig = NoTrig
    /\ ev = NoEvent
    /\ detectFailed = FALSE
    /\ cycleC = <<>>
    /\ cycleNotifs = <<>>
    /\ cycleRaised = {}
    /\ prevD = <<>>

\* The steps of the registry's thread that are taken when a logger call
\* raises, in the polling loop and in the netlink loop.
PollFaults ==
    \/ StartRaises
    \/ PollDetectRaises
    \/ PollRemovedRaises
    \/ PollAddedRaises
    \/ PollExcept
    \/ PollDetectExcept
    \/ MonitorDies

NetlinkFaults ==
    \/ LxLookupRaises
    \/ LxAddRaises
    \/ LxRemoveRaises
    \/ LxExcept
    \/ LxExceptRaises
    \/ LxOuterExcept

MNext ==
    \/ \E d \in Devices : Plug(d)
    \/ \E d \in Devices : Unplug(d)
    \/ SetStop
    \/ StartDetect
    \/ StartMonitoring
    \/ TriggerCallback
    \/ TriggerErrorRaises
    \/ TriggerReturn
    \/ PollLoop
    \/ PollDetect
    \/ PollLock
    \/ PollRemoved
    \/ PollAdded
    \/ PollSleep
    \/ LxSetup
    \/ LxPollEvent
    \/ LxPollTimeout
    \/ LxPollRaises
    \/ LxLookup
    \/ LxAdd
    \/ LxRemove
    \/ LxUnlock
    \/ PollFaults
    \/ NetlinkFaults

Next == RNext

\* One reconciler, attached to DevA.
Init == RInit /\ MIdle /\ WIdle /\ PIdle /\ LIdle /\ CIdle /\ AIdle

Spec == Init /\ [][Next]_vars

\* The reconciler on a device where files are created and deleted, when
\* a log or its digest file cannot always be written: any logger call of a
\* pass can raise, or return with no line written.
FaultyNext ==
    \/ \E p \in Paths : FsCreate(p, 500)
    \/ \E p \in Paths : FsDelete(p)
    \/ Tick
    \/ Dispatch
    \/ ShouldMonitorIsFile
    \/ ShouldMonitorSize
    \/ RecordOperation
    \/ ImmediateLog
    \/ SweepLoop
    \/ SweepAcquire
    \/ SweepSelect
    \/ SweepFinalizeOne
    \/ FinalLog
    \/ SweepSleep
    \/ SweepFinalizeFails
    \/ SweepErrorFails
    \/ SweepExcept
    \/ SweepFinalizeDies
    \/ ImmediateLogFails
    \/ ImmediateErrorFails
    \/ FinalLogLost
    \/ SweepExceptLost
    \/ ImmediateLogLost
FaultySpec == Init /\ [][FaultyNext]_vars

\* The reconciler of a device that already holds a file when it connects.
LoadedInit == RStart(LoadedTree, MaxEvents) /\ MIdle /\ WIdle /\ PIdle /\ LIdle /\ CIdle /\ AIdle
LoadedSpec == LoadedInit /\ [][Next]_vars

\* The reconciler of a device whose one file is deleted, while a directory
\* is made under the file's name and removed again.
RecreateInit ==
    RStart(LoadedTree, MaxEvents + 1) /\ MIdle /\ WIdle /\ PIdle /\ LIdle /\ CIdle /\ AIdle

RecreateNext ==
    \/ FsDelete("f1")
    \/ \E s \in DirSizes : FsMkdir("f1", s)
    \/ Tick
    \/ Dispatch
    \/ RecordOperation
    \/ ImmediateLog
    \/ SweepLoop
    \/ SweepAcquire
    \/ SweepSelect
    \/ SweepFinalizeOne
    \/ FinalLog
    \/ SweepSleep

RecreateSpec == RecreateInit /\ [][RecreateNext]_vars

\* The registry and its poller, with the reconciler at rest.
MonitorInit == MInit /\ RInit /\ WInit /\ PIdle /\ LIdle /\ CIdle /\ AIdle

MonitorSpec == MonitorInit /\ [][MNext]_vars

\* The partitions plugged in and out while the FileWatcher runs: two sticks
\* of one partition each.
Sticks == {DevA, DevB}

\* The registry's thread and the FileWatcher's thread, started together by
\* main.start_monitoring, and main's shutdown.  Either stick is plugged in
\* at any time; the first is also pulled out, the second stays once it is
\* in.
WNext ==
    \/ \E d \in Sticks : Plug(d)
    \/ Unplug(DevA)
    \/ SetStop
    \/ StartDetect
    \/ StartMonitoring
    \/ FwTriggerCallback
    \/ FwTriggerCallbackRaises
    \/ TriggerReturn
    \/ PollLoop
    \/ PollDetect
    \/ PollLock
    \/ PollRemoved
    \/ PollAdded
    \/ PollSleep
    \/ LxSetup
    \/ LxPollEvent
    \/ LxPollTimeout
    \/ LxPollRaises
    \/ LxLookup
    \/ LxAdd
    \/ LxRemove
    \/ LxUnlock
    \/ PollFaults
    \/ NetlinkFaults
    \/ WatcherFaults
    \/ WatcherStart
    \/ WatcherSetup
    \/ WatcherLoopExit
    \/ StopMonitoring

WatcherInit == MInit /\ RInit /\ WInit /\ PIdle /\ LIdle /\ CIdle /\ AIdle

\* The FileWatcher over the registry of a Linux host: the netlink monitor
\* and, once it has failed, the polling loop of _monitor_fallback.
LinuxHost == WatcherInit /\ platform = "Linux"
WatcherSpec == LinuxHost /\ [][WNext]_vars

\* The policy evaluator: one call with any configuration and input.
PolicyInit == PInit /\ RInit /\ MIdle /\ WIdle /\ LIdle /\ CIdle /\ AIdle
PolicySpec == PolicyInit /\ [][PNext]_vars

\* One secure log file: appends, rotations, changes from outside, checks.
LogInit == LInit /\ RInit /\ MIdle /\ WIdle /\ PIdle /\ CIdle /\ AIdle
LogSpec == LogInit /\ [][LNext]_vars

\* Two finalizer threads appending to the shared transfer log.
SharedLogInit == CInit /\ RInit /\ MIdle /\ WIdle /\ PIdle /\ AIdle
SharedLogSpec == SharedLogInit /\ [][CNext]_vars

\* Start-up: the partitions are plugged in before the program starts and
\* stay; main starts the USBMonitorThread and the FileWatcherThread, which
\* run in any order; no shutdown is requested.
BootPlug(d) == mpc = "start" /\ wpc = "start" /\ Plug(d)

MonitorThread ==
    \/ StartDetect
    \/ StartMonitoring
    \/ FwTriggerCallback
    \/ TriggerReturn
    \/ PollLoop
    \/ PollDetect
    \/ PollLock
    \/ PollRemoved
    \/ PollAdded
    \/ PollSleep
    \/ LxSetup
    \/ LxPollTimeout
    \/ LxPollRaises

FileWatcherThread == WatcherStart \/ WatcherSetup

BootNext ==
    \/ \E d \in Devices : BootPlug(d)
    \/ MonitorThread
    \/ FileWatcherThread

\* Both threads are scheduled again and again.
BootSpec ==
    WatcherInit /\ [][BootNext]_vars /\ WF_vars(MonitorThread) /\ WF_vars(FileWatcherThread)

\* Start-up and monitoring of the attached devices when the setup of a
\* device's observer can fail.
SetupNext == BootNext \/ FwTriggerCallbackFails \/ WatcherSetupFails

SetupSpec == WatcherInit /\ [][SetupNext]_vars

\* The polling registry (_monitor_fallback) with the FileWatcher subscribed
\* and a thread reading it.
ANext ==
    \/ \E d \in Sticks : Plug(d)
    \/ \E d \in Sticks : Unplug(d)
    \/ SetStop
    \/ StartDetect
    \/ StartMonitoring
    \/ FwTriggerCallback
    \/ TriggerReturn
    \/ PollLoop
    \/ PollDetect
    \/ PollLock
    \/ PollRemoved
    \/ PollAdded
    \/ PollSleep
    \/ FwTriggerCallbackRaises
    \/ PollFaults
    \/ ReaderGet

ReaderInit ==
    MInit /\ platform = "Darwin" /\ RInit /\ WInit /\ PIdle /\ LIdle /\ CIdle /\ AIdle
ReaderSpec == ReaderInit /\ [][ANext]_vars

\* ------------------------------------------------------------------
\* Properties of the reconciler (Spec)
\* ------------------------------------------------------------------
\* The path of a line, as the log shows it.
RelOf(p) == RelPath(PathOf(p), DevA.mount_point)

\* The notifications about a path that were dispatched, in order.
EventsOn(p) ==
    SelectSeq(hist, LAMBDA h : h.ev.src_path = p \/ h.ev.dest_path = p)

\* Nothing is left to do for a path: no notification waits, the observer
\* thread is not handling it, no entry is in flight or being finalized.
Settled(p) ==
    /\ \A i \in 1..Len(queue) : queue[i].src_path # p /\ queue[i].dest_path # p
    /\ cur.path # p
    /\ \A i \in 1..Len(cur.rest) : cur.rest[i] # p
    /\ \A i \in 1..Len(in_progress) : in_progress[i].path # p
    /\ \A i \in 1..Len(to_finalize) : to_finalize[i].path # p

\* The final transfer records written for a path.
FinalRecords(p) ==
    SelectSeq(log, LAMBDA l : l.type = "TRANSFER" /\ l.file_path = RelOf(p))

\* The suspicious-file warnings written for a path.
SuspiciousLines(p) ==
    SelectSeq(log, LAMBDA l : l.type = "SUSPICIOUS" /\ l.file_path = RelOf(p))

\* Everything dispatched for p so far is: created, then modified any number
\* of times, each ingested, each recorded within the completion threshold
\* of the one before.
CreateModifySeq(p) ==
    LET E == EventsOn(p)
    IN  /\ E # <<>>
        /\ E[1].ev.type = "created"
        /\ \A i \in 2..Len(E) : E[i].ev.type = "modified"
        /\ \A i \in 1..Len(E) : E[i].rec /\ E[i].t >= 0 /\ E[i].path = p
        /\ \A i \in 2..Len(E) : E[i].t - E[i - 1].t <= OpCompletionTime

\* C1: while the notifications of a path are created, modified x N, each
\* within the completion threshold of the one before, the running reconciler
\* has written at most one final record for the path; once nothing is left
\* to do for the path it has written exactly one, whose operation is the
\* kind of the last notification.
C1_DebouncedSequence ==
    \A p \in Paths :
        (CreateModifySeq(p) /\ ~hStop) =>
            /\ Len(FinalRecords(p)) <= 1
            /\ Settled(p) =>
                  /\ Len(FinalRecords(p)) = 1
                  /\ FinalRecords(p)[1].operation = EventsOn(p)[Len(EventsOn(p))].op

\* A create followed by a modify within the threshold, settled into one
\* final record of kind modified.
C1_Witness ==
    \E p \in Paths :
        /\ CreateModifySeq(p)
        /\ Len(EventsOn(p)) >= 2
        /\ ~hStop
        /\ Settled(p)
        /\ Len(FinalRecords(p)) = 1
        /\ FinalRecords(p)[1].operation = "modified"

\* The i-th dispatched notification is the delete of a non-directory.
IsFileDelete(i) ==
    /\ i \in 1..Len(hist)
    /\ hist[i].ev.type = "deleted"
    /\ ~hist[i].ev.is_directory

\* A final record of kind deleted was written for the entry made by the
\* i-th notification.
DeletedFinal(i) ==
    \E k \in 1..Len(log) :
        /\ log[k].type = "TRANSFER"
        /\ log[k].ghost.eid = i
        /\ log[k].operation = "deleted"
        /\ log[k].file_path = RelOf(hist[i].ev.src_path)

\* A later notification for the same path was recorded.
RecordedLater(i) ==
    \E j \in (i + 1)..Len(hist) :
        hist[j].rec /\ hist[j].t >= 0 /\ hist[j].path = hist[i].path

\* Every delete of a non-directory is ingested as "deleted" for its path,
\* and its entry, once recorded, is in the table, or taken by the sweep, or
\* written as a final record, or a later notification was recorded.
DeleteRecorded ==
    \A i \in 1..Len(hist) :
        IsFileDelete(i) =>
            /\ hist[i].rec
            /\ hist[i].op = "deleted"
            /\ hist[i].path = hist[i].ev.src_path
            /\ hist[i].t >= 0 =>
                  \/ \E k \in 1..Len(in_progress) : in_progress[k].eid = i
                  \/ \E k \in 1..Len(to_finalize) : to_finalize[k].eid = i
                  \/ DeletedFinal(i)
                  \/ RecordedLater(i)

\* A pass of the sweep has selected its entries and processed all of them.
SweepPassDone == spc = "finalize" /\ to_finalize = <<>>

\* C2 (as claimed): the delete of a non-directory is always recorded, whatever the size
\* bounds and the extension policy are; and when a pass of the sweep whose
\* clock was more than the completion threshold past the recorded delete
\* has ended, the final record of kind deleted is written, unless a later
\* notification for the path was recorded.
C2_DeleteAlwaysFinalized ==
    /\ DeleteRecorded
    /\ \A i \in 1..Len(hist) :
          (/\ IsFileDelete(i)
           /\ hist[i].t >= 0
           /\ SweepPassDone
           /\ current_time - hist[i].t > OpCompletionTime)
              => (DeletedFinal(i) \/ RecordedLater(i))

\* C3: every final record was written for one in-flight entry: the entry a
\* recorded notification made, with the record's operation and path, taken
\* by a sweep whose clock was at least the completion threshold past the
\* entry's time, when no later notification for the path had been recorded;
\* and no entry has two final records.
C3_FinalRecordProvenance ==
    /\ \A k \in 1..Len(log) :
          log[k].type = "TRANSFER" =>
              LET g == log[k].ghost
              IN  /\ g.eid \in 1..Len(hist)
                  /\ hist[g.eid].rec
                  /\ hist[g.eid].t >= 0
                  /\ hist[g.eid].op = log[k].operation
                  /\ RelOf(hist[g.eid].path) = log[k].file_path
                  /\ g.cur - hist[g.eid].t >= OpCompletionTime
                  /\ g.latest = g.eid
    /\ \A k1, k2 \in 1..Len(log) :
          (/\ k1 # k2
           /\ log[k1].type = "TRANSFER"
           /\ log[k2].type = "TRANSFER") => log[k1].ghost.eid # log[k2].ghost.eid

\* A final record for an entry that had overwritten an earlier entry of the
\* same path, which has no record of its own.
C3_Witness ==
    /\ Len(hist) >= 2
    /\ hist[1].rec /\ hist[1].t >= 0
    /\ hist[2].rec /\ hist[2].path = hist[1].path
    /\ \E k \in 1..Len(log) : log[k].type = "TRANSFER" /\ log[k].ghost.eid = 2
    /\ \A k \in 1..Len(log) : log[k].type = "TRANSFER" => log[k].ghost.eid # 1

\* The scenario of C4 on the device D1: the only notification about
\* r.DOCX, whose extension is in the suspicious set, is its creation with
\* 2 MB, over the threshold of 1 MB; it was ingested, nothing is left to do
\* for the path, and the reconciler runs.
SuspiciousCreate ==
    LET E == EventsOn("f1")
    IN  /\ Len(E) = 1
        /\ E[1].ev.type = "created"
        /\ E[1].rec
        /\ E[1].t >= 0
        /\ fs["f1"] = [kind |-> "file", size |-> 2 * MB]
        /\ Settled("f1")
        /\ ~hStop

\* The one final record of the scenario has the fields the claim lists.
ScenarioRecord ==
    /\ Len(FinalRecords("f1")) = 1
    /\ FinalRecords("f1")[1].operation = "created"
    /\ FinalRecords("f1")[1].device = "D1"
    /\ FinalRecords("f1")[1].file_path = << <<"r", ".", "D", "O", "C", "X">> >>
    /\ FinalRecords("f1")[1].file_size = 2097152
    /\ FinalRecords("f1")[1].file_type = <<".", "d", "o", "c", "x">>

\* C4 (as claimed): the scenario ends with exactly one suspicious-file
\* warning and exactly one final record with the listed fields.
C4_OneSuspiciousLine ==
    SuspiciousCreate =>
        (Len(SuspiciousLines("f1")) = 1 /\ ScenarioRecord)

\* C4: the scenario ends with exactly two suspicious-file warnings, one of
\* the immediate pass at ingestion and one of the final pass, and exactly
\* one final record: operation created, the device's name, the path
\* relative to the mount point, the size in bytes, the lowercase extension.
C4_SuspiciousCreateRecord ==
    SuspiciousCreate =>
        /\ Len(SuspiciousLines("f1")) = 2
        /\ \E a, b \in 1..2 :
              /\ ~SuspiciousLines("f1")[a].final
              /\ SuspiciousLines("f1")[b].final
        /\ \A a \in 1..Len(SuspiciousLines("f1")) :
              SuspiciousLines("f1")[a].operation = "created"
        /\ ScenarioRecord

\* The scenario, ended, with its final record written.
C4_Witness ==
    /\ SuspiciousCreate
    /\ Len(FinalRecords("f1")) = 1
    /\ Len(SuspiciousLines("f1")) >= 1

\* ------------------------------------------------------------------
\* Properties of the registry and its poller (MonitorSpec)
\* ------------------------------------------------------------------
\* The notifications of the current cycle, one entry each: the calls of the
\* first subscriber.
CycleNotifications == SelectSeq(cycleNotifs, LAMBDA n : n.sub = 1)

NotifiedIds(kind) ==
    {CycleNotifications[i].id : i \in {j \in 1..Len(CycleNotifications) :
                                          CycleNotifications[j].kind = kind}}

\* A polling cycle that got its detected list is over: the thread is in the
\* sleep, after the add loop or after the except branch of the loop.
CycleDone == mpc = "poll_sleep"

\* C5 (as claimed): one polling cycle with detected list D and connected set C notifies
\* a removal exactly for the ids of C not in D, then an addition exactly for
\* the ids of D not in C, each once, notifies nothing for an id in both, and
\* leaves the connected ids equal to the ids of D.
C5_RefreshDiff ==
    CycleDone =>
        LET C == Ids(cycleC)
            D == Ids(current_devices)
            N == CycleNotifications
        IN  /\ NotifiedIds("removed") = C \ D
            /\ NotifiedIds("added") = D \ C
            /\ \A i, j \in 1..Len(N) : i # j => N[i].id # N[j].id
            /\ \A i, j \in 1..Len(N) :
                  (N[i].kind = "removed" /\ N[j].kind = "added") => i < j
            /\ Ids(connected_devices) = D

\* C6 (as claimed): a polling cycle that detects the same ids as the cycle
\* before it notifies nothing and leaves the connected set as it was.
C6_RefreshIdempotent ==
    (CycleDone /\ prevD = <<Ids(current_devices)>>) =>
        (cycleNotifs = <<>> /\ connected_devices = cycleC)

\* C7 (as claimed): the callbacks of a notification are called for every
\* subscriber, in registration order, whether or not one of them raises; a
\* raising callback does not end the cycle, which still brings the
\* connected ids to the detected ids.
C7_CallbackIsolation ==
    /\ \A k \in 1..Len(cycleNotifs) :
          /\ cycleNotifs[k].sub = ((k - 1) % NumSubs) + 1
          /\ cycleNotifs[k].sub > 1 =>
                /\ cycleNotifs[k].kind = cycleNotifs[k - 1].kind
                /\ cycleNotifs[k].id = cycleNotifs[k - 1].id
    /\ mpc = "trigger" => Len(cycleNotifs) % NumSubs = (trig.i - 1) % NumSubs
    /\ mpc \notin {"trigger", "deadlock"} => Len(cycleNotifs) % NumSubs = 0
    /\ (CycleDone /\ cycleRaised # {}) => Ids(connected_devices) = Ids(current_devices)

\* C8 (as claimed): no callback is called while the registry lock is held,
\* and a callback that calls a read accessor never blocks for ever.
C8_CallbacksOutsideLock ==
    /\ \A k \in 1..Len(cycleNotifs) : ~cycleNotifs[k].locked
    /\ mpc # "deadlock"

\* C9 (as claimed): the monitoring loop ends only once the cancellation
\* signal is set.
C9_RunsUntilCancelled == mpc = "exited" => stop_event

\* C10 (as claimed): a polling cycle whose detection failed is skipped; in
\* particular a device that was connected when the cycle began and is still
\* attached is still connected when it ends, and no notification was fired
\* for it.
C10_FailedDetectionSkipsCycle ==
    (CycleDone /\ detectFailed) =>
        \A k \in 1..Len(cycleC) :
            cycleC[k] \in attached =>
                /\ cycleC[k].device_id \in Ids(connected_devices)
                /\ \A n \in 1..Len(cycleNotifs) :
                      cycleNotifs[n].id # cycleC[k].device_id

\* C11 (as claimed): the ids of the connected set change only in a step
\* that starts the notification of the subscribers for that change.
C11_ChangesOnlyWithNotification ==
    [][Ids(connected_devices') # Ids(connected_devices) => trig' # NoTrig]_vars

\* C34: per device_id, add and remove notifications alternate, starting
\* with add: whenever the registry starts notifying its subscribers, an add
\* is for a device_id that was not in the connected set, and a remove is
\* for one that was, in the polling loop and in the native loop alike.
C34_NotificationsAlternate ==
    [][(trig = NoTrig /\ trig' # NoTrig) =>
          IF trig'.kind = "added"
          THEN trig'.device.device_id \notin Ids(connected_devices)
          ELSE trig'.device.device_id \in Ids(connected_devices)]_vars

\* The observer thread takes a move notification of a non-directory in this
\* step.
MoveDispatched ==
    /\ Len(hist') = Len(hist) + 1
    /\ hist'[Len(hist')].ev.type = "moved"
    /\ ~hist'[Len(hist')].ev.is_directory

\* The observer thread is in _should_monitor_file(cur.path) and takes a
\* step of it.
CheckStep == ipc \in {"isfile", "getsize"} /\ <<ipc, cur>>' # <<ipc, cur>>

\* The step of _should_monitor_file ends the check: it accepts the path
\* (a regular file that passes the size bounds, as far as its size can be
\* read, and the extension lists), or it refuses it.
CheckAccepts == ipc = "getsize" /\ AcceptedAtSize(config, cur.path, fs[cur.path])
CheckRefuses ==
    \/ ipc = "isfile" /\ fs[cur.path].kind # "file"
    \/ ipc = "getsize" /\ ~AcceptedAtSize(config, cur.path, fs[cur.path])

\* C13 (amended): a move notification of a non-directory is recorded at most
\* once, under kind moved.  The handler checks the destination first, when
\* there is one, and records the move under it when the check accepts it;
\* when the check refuses the destination or there is none, it checks the
\* source and records the move under the source exactly when the check
\* accepts it.
C13_MoveDestinationFirst ==
    [][/\ MoveDispatched =>
             LET e == hist'[Len(hist')].ev
             IN  /\ ipc' = "isfile"
                 /\ ~hist'[Len(hist')].rec
                 /\ cur'.path = IF e.dest_path # "none" THEN e.dest_path ELSE e.src_path
       /\ (CheckStep /\ hist[Len(hist)].ev.type = "moved") =>
             LET e == hist[Len(hist)].ev
                 h == hist'[Len(hist)]
             IN  /\ ~hist[Len(hist)].rec
                 /\ CheckAccepts =>
                       /\ h.rec /\ h.op = "moved" /\ h.path = cur.path
                       /\ ipc' = "record" /\ cur'.path = cur.path
                 /\ (CheckRefuses /\ e.dest_path # "none" /\ cur.path = e.dest_path) =>
                       /\ ~h.rec
                       /\ ipc' = "isfile" /\ cur'.path = e.src_path
                 /\ (CheckRefuses /\ cur.path = e.src_path) =>
                       /\ ~h.rec
                       /\ ipc' = "idle"
                 /\ (~CheckAccepts /\ ~CheckRefuses) =>
                       /\ ~h.rec
                       /\ ipc' = "getsize" /\ cur' = cur]_vars

\* A move with an ineligible destination was recorded under its source, and
\* its line is in the log.
C13_Witness ==
    \E i \in 1..Len(hist) :
        /\ hist[i].ev.type = "moved" /\ hist[i].ev.dest_path # "none"
        /\ hist[i].rec /\ hist[i].path = hist[i].ev.src_path
        /\ \E k \in 1..Len(log) : log[k].ghost.eid = i /\ log[k].operation = "moved"

\* C13 (as claimed): a move notification of a non-directory that carries a
\* destination path is recorded, if at all, under the destination path;
\* the source path is never recorded for it.
C13_MoveRecordsDestinationOnly ==
    \A i \in 1..Len(hist) :
        (hist[i].ev.type = "moved" /\ ~hist[i].ev.is_directory
             /\ hist[i].ev.dest_path # "none" /\ hist[i].rec)
        => hist[i].path = hist[i].ev.dest_path

\* Position of the sweep thread in its pass, counted from the exit.
SweepStage(pc) ==
    CASE pc = "done" -> 0
      [] pc = "loop" -> 1
      [] pc = "finalize" -> 2
      [] pc = "select" -> 3
      [] pc = "lock" -> 4

\* Position of a pass of _log_file_operation, counted from its end.
PassStage(pc) ==
    CASE pc = "off" -> 9
      [] pc = "exists" -> 8
      [] pc = "getsize" -> 7
      [] pc = "wlarge" -> 6
      [] pc = "suspicious" -> 5
      [] pc = "wsuspicious" -> 4
      [] pc = "wafterhours" -> 3
      [] pc = "wtransfer" -> 2
      [] pc = "werror" -> 1

\* All final records of the log.
AllFinalRecords(l) == SelectSeq(l, LAMBDA x : x.type = "TRANSFER")

\* C14: once the stop signal is set, every step of the sweep thread brings
\* it nearer to its exit (it goes on with the final pass it is in, then with
\* the rest of its batch, and starts no new sweep), the sweep exits only
\* when stopped, and after the exit it never
\* runs again: the entries then in the table have no final record and no
\* final record is written any more.
C14_StoppedSweepDropsEntries ==
    [][/\ (hStop /\ <<spc, to_finalize, spass>>' # <<spc, to_finalize, spass>>) =>
              \/ SweepStage(spc') < SweepStage(spc)
              \/ /\ spc' = spc
                 /\ Len(to_finalize') < Len(to_finalize)
              \/ /\ spc' = spc
                 /\ to_finalize' = to_finalize
                 /\ PassStage(spass'.pc) < PassStage(spass.pc)
       /\ spc' = "done" => hStop
       /\ spc = "done" =>
              /\ spc' = "done"
              /\ AllFinalRecords(log') = AllFinalRecords(log)
              /\ \A i \in 1..Len(in_progress) : \A k \in 1..Len(log) :
                     log[k].type = "TRANSFER" => log[k].ghost.eid # in_progress[i].eid]_vars

\* The sweep has exited and an entry older than the completion threshold
\* is still in the table.
C14_Witness ==
    /\ spc = "done"
    /\ \E i \in 1..Len(in_progress) : now - in_progress[i].start_time > OpCompletionTime

\* C15 (as claimed): a notification delivered to the handler after stop()
\* has returned (the stop event is set and the finalizer thread has exited)
\* makes no entry in the in-flight table and no line in the log.
C15_StoppedHandlerIgnoresEvents ==
    \A i \in 1..Len(hist) :
        hist[i].late =>
            /\ \A j \in 1..Len(in_progress) : in_progress[j].eid # i
            /\ \A k \in 1..Len(log) : log[k].ghost.eid # i

\* The eids of the entries of a table.
Eids(tbl) == {tbl[i].eid : i \in 1..Len(tbl)}

\* C22: the sweep holds the in-flight mutex exactly while it selects and
\* removes the expired entries; while it checks paths, classifies and
\* writes, the mutex is free, so a pending upsert can take it; the sweep
\* removes nothing from the table in that phase, and an event recorded then
\* is in the table when the phase ends.
C22_SweepReleasesLockForIO ==
    /\ [](opsLock = "sweep" <=> spc = "select")
    /\ []((spc = "finalize" /\ ipc = "record") => opsLock = "free")
    /\ [][spc = "finalize" =>
            \/ in_progress' = in_progress
            \/ /\ ipc = "record"
               /\ in_progress' = Upsert(in_progress, in_progress'[Len(in_progress')])
               /\ Len(hist) \in Eids(in_progress')]_vars

\* While the sweep finalizes a path, a new event for the same path has been
\* recorded and is in the table.
C22_Witness ==
    /\ spc = "finalize"
    /\ to_finalize # <<>>
    /\ \E i \in 1..Len(in_progress) : in_progress[i].path = Head(to_finalize).path

\* The entries of the table for paths other than p, in order.
OtherPaths(tbl, p) == SelectSeq(tbl, LAMBDA x : x.path # p)

\* C24: last write wins per path.  The table never holds two entries of one
\* path; _record_operation leaves in the table exactly one entry for its
\* path, with the notification's operation and the time of the call, and
\* the entries of all other paths as they were; and the operation of every
\* final record is the operation of the latest notification recorded for
\* its path when the sweep removed the entry.
C24_LastWriteWins ==
    /\ [](\A i, j \in 1..Len(in_progress) :
            in_progress[i].path = in_progress[j].path => i = j)
    /\ [][(ipc = "record" /\ ipc' = "log") =>
            /\ \E i \in 1..Len(in_progress') :
                  /\ in_progress'[i].path = cur.path
                  /\ in_progress'[i].operation = cur.op
                  /\ in_progress'[i].start_time = now
            /\ OtherPaths(in_progress', cur.path) = OtherPaths(in_progress, cur.path)]_vars
    /\ [](\A k \in 1..Len(log) :
            log[k].type = "TRANSFER" =>
                /\ log[k].ghost.latest \in 1..Len(hist)
                /\ hist[log[k].ghost.latest].path = log[k].ghost.path
                /\ log[k].operation = hist[log[k].ghost.latest].op)

\* A pending entry was overwritten by a later notification of another kind,
\* recorded at a later time, and the final record carries the later kind.
C24_Witness ==
    \E a, b \in 1..Len(hist) :
        /\ a < b
        /\ hist[a].rec /\ hist[a].t >= 0
        /\ hist[b].rec /\ hist[b].t > hist[a].t
        /\ hist[b].path = hist[a].path
        /\ hist[b].op # hist[a].op
        /\ hist[b].t - hist[a].t <= OpCompletionTime
        /\ \E k \in 1..Len(log) :
              /\ log[k].type = "TRANSFER"
              /\ log[k].ghost.latest = b
              /\ log[k].operation = hist[b].op

\* The warning lines.
Alerts == {"LARGE", "SUSPICIOUS", "AFTERHOURS"}

\* The observer thread takes a step of the pass made at ingestion.
ImmediateStep == ipc = "log" /\ <<ipc, ipass>>' # <<ipc, ipass>>

\* C25: the pass made at ingestion writes warnings (or the error line of
\* its except branch) only, never a transfer record; a transfer record is
\* written only by the sweep, one for the entry it takes from its batch; so
\* the transfer records, together with the entries of the batch not
\* processed yet, are never more than the entries the sweep has removed
\* from the table.
C25_ImmediatePassNotFinal ==
    /\ [][ImmediateStep =>
            /\ Len(log') >= Len(log)
            /\ SubSeq(log', 1, Len(log)) = log
            /\ AllFinalRecords(log') = AllFinalRecords(log)
            /\ \A k \in (Len(log) + 1)..Len(log') :
                  log'[k].type \in Alerts \cup {"ERROR"} /\ ~log'[k].final]_vars
    /\ [][AllFinalRecords(log') # AllFinalRecords(log) =>
            /\ spc = "finalize"
            /\ to_finalize # <<>>
            /\ to_finalize' = Tail(to_finalize)
            /\ Len(AllFinalRecords(log')) = Len(AllFinalRecords(log)) + 1]_vars
    /\ [](\A k \in 1..Len(log) : log[k].type = "TRANSFER" => log[k].final)
    /\ [](Len(AllFinalRecords(log)) + Len(to_finalize) <= nRemoved)

\* The pass at ingestion has written a warning, the sweep has removed two
\* entries and has written a transfer record for one of them only.
C25_Witness ==
    /\ \E k \in 1..Len(log) : log[k].type \in Alerts /\ ~log[k].final
    /\ nRemoved = 2
    /\ to_finalize = <<>>
    /\ Len(AllFinalRecords(log)) = 1

\* The entry x of the table is no longer in the table tbl.
Gone(x, tbl) == \A i \in 1..Len(tbl) : tbl[i].eid # x.eid

\* C26: an entry leaves the table only in the sweep's selection, and only
\* when the sweep's clock, hence the present time too, is more than the
\* completion threshold past the entry's time, which is the time of the
\* latest notification recorded for its path; so while each notification
\* of a path is recorded within the threshold of the one before, no entry
\* but the last one is put in a batch or written as a final record.
C26_YoungEntriesStay ==
    /\ [][\A i \in 1..Len(in_progress) :
            (Gone(in_progress[i], in_progress')
             /\ ~(ipc = "record" /\ cur.path = in_progress[i].path)) =>
                LET x == in_progress[i]
                IN  /\ spc = "select"
                    /\ x.eid = LatestRecorded(hist, x.path, Len(hist))
                    /\ x.start_time = hist[x.eid].t
                    /\ current_time - x.start_time > OpCompletionTime
                    /\ now - x.start_time > OpCompletionTime]_vars
    /\ [](\A a, b \in 1..Len(hist) :
            (/\ a < b
             /\ hist[a].rec /\ hist[a].t >= 0
             /\ hist[b].rec /\ hist[b].t >= 0
             /\ hist[b].path = hist[a].path
             /\ hist[b].t - hist[a].t <= OpCompletionTime
             /\ \A c \in (a + 1)..(b - 1) : ~(hist[c].rec /\ hist[c].path = hist[a].path))
                => /\ \A k \in 1..Len(to_finalize) : to_finalize[k].eid # a
                   /\ \A k \in 1..Len(log) :
                         log[k].type = "TRANSFER" => log[k].ghost.eid # a)

\* A path was recorded again within the threshold; a sweep whose clock is
\* more than the threshold past the first notification, and not past the
\* second, has made its selection and the entry is still in the table.
C26_Witness ==
    \E a, b \in 1..Len(hist) :
        /\ a < b
        /\ hist[a].rec /\ hist[a].t >= 0
        /\ hist[b].rec /\ hist[b].t >= 0
        /\ hist[b].path = hist[a].path
        /\ hist[b].t - hist[a].t <= OpCompletionTime
        /\ spc = "finalize"
        /\ current_time - hist[a].t > OpCompletionTime
        /\ current_time - hist[b].t <= OpCompletionTime
        /\ \E i \in 1..Len(in_progress) : in_progress[i].eid = b

\* The lines the step has appended to the log.
Appended == SubSeq(log', Len(log) + 1, Len(log'))

\* The sweep is at an entry of its batch and takes a step of its
\* iteration.
IterationStep ==
    /\ spc = "finalize"
    /\ to_finalize # <<>>
    /\ <<to_finalize, spass>>' # <<to_finalize, spass>>

\* C27 (as claimed): when the sweep processes an entry of its batch, the
\* entry is not in the table any more.  If, when the sweep tests it, the
\* path exists or the operation is "deleted", the entry gets a final pass,
\* which writes lines for this entry only and ends with the entry's
\* transfer record; otherwise the entry is dropped with no line at all: no
\* record and no warning for an entry of another kind whose path is gone.
C27_VanishedPathDropped ==
    [][IterationStep =>
          LET x == Head(to_finalize)
              recordDue == fs[x.path].kind # "none" \/ x.operation = "deleted"
              ends == to_finalize' = Tail(to_finalize)
          IN  /\ \A i \in 1..Len(in_progress') : in_progress'[i].eid # x.eid
              /\ SubSeq(log', 1, Len(log)) = log
              /\ \A k \in 1..Len(Appended) :
                    Appended[k].final /\ Appended[k].ghost.eid = x.eid
              /\ spass = NoPass =>
                    /\ log' = log
                    /\ ends <=> ~recordDue
              /\ (spass # NoPass /\ ends) =>
                    /\ Len(Appended) = 1
                    /\ Appended[1].type = "TRANSFER"
                    /\ Appended[1].operation = x.operation
                    /\ Appended[1].file_path = RelOf(x.path)]_vars

\* The handler returns without recording in this step of the observer
\* thread: at once for a directory, or when _should_monitor_file has refused
\* the last path the handler tries.
Rejecting ==
    \/ ipc = "idle" /\ Len(hist') = Len(hist) + 1 /\ Head(queue).is_directory
    \/ CheckStep /\ CheckRefuses /\ cur.rest = <<>>

\* Notification j was rejected and its handler has returned; it was a
\* notification of path p.
RejectedOn(p, j) ==
    /\ j <= Handled
    /\ ~hist[j].rec
    /\ hist[j].ev.src_path = p \/ hist[j].ev.dest_path = p

\* x is an entry, or an item of the sweep's batch, that was in the table
\* when a later notification of its path was rejected, at most n
\* notifications having been handled by then.
KeptAfterRejection(x, n) == \E j \in (x.eid + 1)..n : RejectedOn(x.path, j)

\* C38: a notification for a directory, and a creation, modification or
\* move none of whose paths passes the eligibility check, is rejected: the
\* handler returns and the step leaves the in-flight table and the log as
\* they are.  A creation, modification or move is recorded only by the step
\* in which the eligibility check accepts its path.  So an entry recorded
\* earlier for the same path keeps its kind and start time, and every entry
\* and every line stem from a notification that was not rejected.  The
\* entry kept is still finalized: it leaves the table only for the batch of
\* the sweep (or for a later entry of its path), the first selection whose
\* clock is more than the threshold past its start time takes it with its
\* old kind, the sweep gives it a final pass if its path exists or the
\* kind is "deleted", and the record the pass writes names the old kind.
C38_RejectedEventChangesNothing ==
    /\ [][Rejecting
            => /\ in_progress' = in_progress
               /\ log' = log
               /\ to_finalize' = to_finalize
               /\ ipc' = "idle"
               /\ ~hist'[Len(hist')].rec]_vars
    /\ [][(Len(hist') > 0 /\ hist'[Len(hist')].rec
               /\ ~(Len(hist') = Len(hist) /\ hist[Len(hist)].rec))
            => LET e == hist'[Len(hist')].ev
               IN  /\ ~e.is_directory
                   /\ e.type = "deleted" \/ (CheckStep /\ CheckAccepts)]_vars
    /\ [](\A k \in 1..Len(in_progress) :
            /\ hist[in_progress[k].eid].rec
            /\ in_progress[k].operation = hist[in_progress[k].eid].op
            /\ in_progress[k].start_time = hist[in_progress[k].eid].t)
    /\ [](\A k \in 1..Len(log) : hist[log[k].ghost.eid].rec)
    /\ [][\A k \in 1..Len(in_progress) :
            LET x == in_progress[k]
                taken == \E i \in 1..Len(to_finalize') :
                            /\ to_finalize'[i].eid = x.eid
                            /\ to_finalize'[i].path = x.path
                            /\ to_finalize'[i].operation = hist[x.eid].op
            IN  KeptAfterRejection(x, Handled) =>
                   /\ Gone(x, in_progress') =>
                          \/ taken
                          \/ \E i \in 1..Len(in_progress') :
                                /\ in_progress'[i].path = x.path
                                /\ in_progress'[i].eid > x.eid
                   /\ (spc = "select" /\ spc' = "finalize"
                       /\ current_time - x.start_time > OpCompletionTime) => taken]_vars
    /\ [][(IterationStep /\ KeptAfterRejection(Head(to_finalize), Head(to_finalize).seen)) =>
            LET x == Head(to_finalize)
            IN  /\ spass = NoPass =>
                      (spass' # NoPass <=> (fs[x.path].kind # "none" \/ x.operation = "deleted"))
                /\ spass.pc = "wtransfer" =>
                      /\ Len(Appended) = 1
                      /\ Appended[1].type = "TRANSFER"
                      /\ Appended[1].final
                      /\ Appended[1].operation = hist[x.eid].op
                      /\ Appended[1].file_path = RelOf(x.path)
                      /\ Appended[1].ghost.eid = x.eid
                      /\ to_finalize' = Tail(to_finalize)]_vars

\* A file was created and recorded; a later modification of it was
\* rejected and left the entry pending; the sweep took the entry after the
\* threshold and its final pass has written the record, of kind created.
C38_Witness ==
    \E k \in 1..Len(log), j \in 1..Len(hist) :
        /\ log[k].type = "TRANSFER"
        /\ log[k].final
        /\ log[k].operation = "created"
        /\ hist[log[k].ghost.eid].op = "created"
        /\ log[k].ghost.eid < j
        /\ j <= log[k].ghost.seen
        /\ hist[j].ev.type = "modified"
        /\ ~hist[j].ev.is_directory
        /\ hist[j].ev.src_path = log[k].ghost.path
        /\ ~hist[j].rec
        /\ log[k].ghost.cur - hist[log[k].ghost.eid].t > OpCompletionTime

\* C39: while the sweep runs, no entry stays in the table for ever: after
\* the selection of a pass no entry older than the completion threshold at
\* the pass's clock is left, so a pass whose clock is more than the
\* threshold past every recorded notification leaves the table empty; and
\* however ingestion and sweep interleave, an entry leaves the table only
\* when a later notification of its path replaces it or when the sweep
\* puts it in its batch.
C39_EntriesSweptInTime ==
    /\ [](spc = "finalize" =>
            \A k \in 1..Len(in_progress) :
                current_time - in_progress[k].start_time <= OpCompletionTime)
    /\ []((/\ spc = "finalize"
            /\ \A i \in 1..Len(hist) :
                  hist[i].rec => (hist[i].t >= 0 /\ current_time - hist[i].t > OpCompletionTime))
           => in_progress = <<>>)
    /\ [][\A k \in 1..Len(in_progress) :
            Gone(in_progress[k], in_progress') =>
                \/ \E j \in 1..Len(in_progress') :
                      /\ in_progress'[j].path = in_progress[k].path
                      /\ in_progress'[j].eid > in_progress[k].eid
                \/ \E j \in 1..Len(to_finalize') :
                      /\ to_finalize'[j].eid = in_progress[k].eid
                      /\ to_finalize'[j].operation = in_progress[k].operation
                      /\ to_finalize'[j].path = in_progress[k].path]_vars

\* Two notifications were recorded, the second one not before the clock
\* of the pass that took the first; each entry was taken by a pass of its
\* own and has its final record, and the table is empty.
C39_Witness ==
    /\ Len(hist) = 2
    /\ hist[1].rec /\ hist[1].t >= 0
    /\ hist[2].rec /\ hist[2].t >= 0
    /\ SweepPassDone
    /\ in_progress = <<>>
    /\ nRemoved = 2
    /\ \E a, b \in 1..Len(log) :
          /\ log[a].type = "TRANSFER" /\ log[a].ghost.eid = 1
          /\ log[b].type = "TRANSFER" /\ log[b].ghost.eid = 2
          /\ log[a].ghost.cur <= hist[2].t
          /\ log[b].ghost.cur > log[a].ghost.cur

\* The step is an iteration of the batch whose final pass failed.
FinalPassFailed ==
    /\ spc = "finalize"
    /\ to_finalize # <<>>
    /\ spass.pc = "werror"
    /\ <<spc, spass>>' # <<spc, spass>>

\* C33: when the final pass of an entry fails, the error is logged, the
\* entry is not put back in the table and not tried again, the sweep goes
\* on with the rest of the batch, and the sweep thread keeps running: it
\* ends only when the handler is stopped.
C33_FailedFinalPassContained ==
    /\ [][FinalPassFailed =>
            /\ log' # log
            /\ log'[Len(log')].type = "ERROR"
            /\ log'[Len(log')].ghost.eid = Head(to_finalize).eid
            /\ in_progress' = in_progress
            /\ to_finalize' = Tail(to_finalize)
            /\ spc' = "finalize"]_vars
    /\ [](spc \in {"loop", "lock", "select", "finalize", "except", "done"})
    /\ [](spc = "done" => hStop)

\* ------------------------------------------------------------------
\* Properties of the FileWatcher (WatcherSpec)
\* ------------------------------------------------------------------
\* Both threads are past their start-up, no callback is running and no
\* change of the connected set is under way, and shutdown has not begun.
LifecycleAtRest ==
    /\ mpc \in {"poll_loop", "poll_detect", "poll_lock", "poll_sleep", "lx_setup", "lx_poll"}
    /\ wpc = "loop"
    /\ ~stop_event

\* C12 (as claimed): at rest, the device_ids that have a reconciler in the
\* FileWatcher are the connected device_ids, and no device_id has a second
\* running reconciler.
C12_ReconcilerPerConnectedDevice ==
    LifecycleAtRest => (handlers = Ids(connected_devices) /\ leaked = {})

\* C16 (as claimed): when the stop event is set and both the device poller
\* and the FileWatcher loop have exited, no reconciler is left running: the
\* FileWatcher's maps are empty and no reconciler was dropped from them
\* without being stopped.
C16_ShutdownStopsEveryReconciler ==
    (stop_event /\ mpc = "exited" /\ wpc = "done") => (handlers = {} /\ leaked = {})

\* C35: the FileWatcher never loses track of a running reconciler: storing
\* a handler/observer pair under a device_id never replaces a pair that is
\* still running, so no reconciler is ever out of reach of the remove
\* callback and of stop_monitoring.
C35_NoReconcilerOverwritten ==
    [][leaked' = leaked]_vars /\ [](leaked = {})

\* C36: every device that is attached when the program starts eventually
\* has a reconciler, in whatever order the two threads run (stated for the
\* runs in which no device enumeration fails).
C36_InitialDevicesGetReconciler ==
    <>detectFailed \/ []((mpc # "start" \/ wpc # "start") => <>({d.device_id : d \in attached} \subseteq handlers))

\* C37: once FileWatcher.stop_monitoring has completed after the shutdown
\* signal, no reconciler is stored and none is created any more, even by a
\* device-monitor cycle that was under way when the signal was set.
C37_NoReconcilerAfterShutdown ==
    /\ [](wpc = "done" => (stop_event /\ handlers = {}))
    /\ [][wpc = "done" => handlers' = handlers]_vars

\* The step is a run of _handle_device_added, from the add callback or from
\* the start-up loop, that ends without a stored pair for a device_id that
\* had none: the setup failed.
SetupFailed ==
    \/ /\ mpc = "trigger" /\ trig.i = 1 /\ trig.kind = "added" /\ trig'.i = 2
       /\ trig.device.device_id \notin handlers'
    \/ /\ wpc = "setup" /\ wrest # <<>> /\ wrest' = Tail(wrest)
       /\ Head(wrest).device_id \notin handlers'

\* C40: a setup of monitoring that fails after the handler was constructed
\* stores nothing for the device_id and leaves nothing of the failed
\* reconciler running: the finalizer thread the constructor started is
\* stopped.
C40_FailedSetupLeavesNothing ==
    [][SetupFailed => (handlers' = handlers /\ leaked' = leaked)]_vars

\* ------------------------------------------------------------------
\* Properties of the policy evaluator (PolicySpec)
\* ------------------------------------------------------------------
\* _should_monitor_file has returned for an existing regular file whose
\* size could be read.
MonitorDecided ==
    /\ returned
    /\ call.fn = "_should_monitor_file"
    /\ call.f.kind = "file"
    /\ call.sizeOk

\* The size lies within the configured bounds, both inclusive.
WithinSizeBounds(cfg, size) ==
    /\ size >= cfg.min_file_size_bytes
    /\ cfg.max_file_size_bytes # 0 => size <= cfg.max_file_size_bytes

\* The lowercased extension of the last component of a path.
LoweredExtension(path) == Lower(SplitExt(path))

\* The members of a list.
Members(l) == {l[i] : i \in 1..Len(l)}

NameATmp == << <<"a", ".", "t", "m", "p">> >>
NameATxt == << <<"a", ".", "t", "x", "t">> >>

\* C17: with include list exactly ["*"], an existing regular file within
\* the size bounds is monitored iff its lowercased extension is not a
\* member of the exclude list; with exclude [".tmp"], a.tmp is not monitored
\* and a.txt is.
C17_WildcardIncludeExcludes ==
    (MonitorDecided /\ call.cfg.include_file_extensions = << <<"*">> >>
         /\ WithinSizeBounds(call.cfg, call.f.size))
    => /\ result <=> LoweredExtension(call.path)
                          \notin Members(call.cfg.exclude_file_extensions)
       /\ call.cfg.exclude_file_extensions = <<ExtTmp>> =>
              /\ call.path = NameATmp => ~result
              /\ call.path = NameATxt => result

\* a.TMP of 1000 bytes was refused under include ["*"], exclude [".tmp"],
\* minimum size 1000.
C17_Witness ==
    /\ MonitorDecided
    /\ call.cfg.include_file_extensions = << <<"*">> >>
    /\ call.cfg.exclude_file_extensions = <<ExtTmp>>
    /\ call.cfg.min_file_size_bytes = 1000
    /\ call.f.size = 1000
    /\ call.path = << <<"a", ".", "T", "M", "P">> >>
    /\ ~result

\* The extension passes the include/exclude policy.
ExtensionPasses(cfg, ext) ==
    IF cfg.include_file_extensions = << <<"*">> >>
    THEN ext \notin Members(cfg.exclude_file_extensions)
    ELSE /\ \E pat \in Members(cfg.include_file_extensions) : PatternMatches(ext, pat)
         /\ \A pat \in Members(cfg.exclude_file_extensions) : ~PatternMatches(ext, pat)

\* C18: an existing regular file whose extension passes the policy is
\* monitored iff its size is >= the minimum and, when a maximum is
\* configured, <= the maximum; with minimum 1000 and no maximum, 500 bytes
\* are not monitored and 1000 bytes are.
C18_InclusiveSizeBounds ==
    (MonitorDecided /\ ExtensionPasses(call.cfg, LoweredExtension(call.path)))
    => /\ result <=> WithinSizeBounds(call.cfg, call.f.size)
       /\ (call.cfg.min_file_size_bytes = 1000 /\ call.cfg.max_file_size_bytes = 0) =>
              /\ call.f.size = 500 => ~result
              /\ call.f.size = 1000 => result

\* A file of exactly the maximum size, and above the minimum, was accepted.
C18_Witness ==
    /\ MonitorDecided
    /\ ExtensionPasses(call.cfg, LoweredExtension(call.path))
    /\ call.cfg.min_file_size_bytes = 1000
    /\ call.cfg.max_file_size_bytes = 2000
    /\ call.f.size = 2000
    /\ result

\* The hour lies in [start, end), read as passing midnight when start > end.
InRestrictedHours(hour, start, end) ==
    IF start > end THEN hour >= start \/ hour < end
    ELSE start <= hour /\ hour < end

\* C19: for every hour and weekday, with time-based alerts enabled the
\* restricted-time predicate is true iff (Saturday or Sunday, and weekend
\* alerts enabled) or the hour lies in the restricted hours; with start 18
\* and end 7 on a weekday, 20 and 3 are restricted and 12 is not; with
\* time-based alerts disabled it is false.
C19_RestrictedTime ==
    (returned /\ call.fn = "_check_time_based_alerts")
    => \A h \in RestrictedHours :
          (call.cfg.restricted_start = HourText(h[1]) /\ call.cfg.restricted_end = HourText(h[2]))
          => /\ call.cfg.tba_enabled =>
                   (result <=> \/ call.clock.weekday \in {5, 6} /\ call.cfg.weekend_alerts
                               \/ InRestrictedHours(call.clock.hour, h[1], h[2]))
             /\ ~call.cfg.tba_enabled => ~result
             /\ (call.cfg.tba_enabled /\ h = <<18, 7>> /\ call.clock.weekday < 5) =>
                   /\ call.clock.hour \in {20, 3} => result
                   /\ call.clock.hour = 12 => ~result

\* Hour 3 of a weekday was found restricted under start 18, end 7.
C19_Witness ==
    /\ returned
    /\ call.fn = "_check_time_based_alerts"
    /\ call.cfg.tba_enabled
    /\ call.cfg.restricted_start = HourText(18)
    /\ call.cfg.restricted_end = HourText(7)
    /\ call.clock = [hour |-> 3, weekday |-> 2]
    /\ result

\* A call of _log_file_operation has returned.
PassReturned == returned /\ call.fn = "_log_file_operation"

\* The lines of a type among the lines l.
OfType(l, type) == SelectSeq(l, LAMBDA x : x.type = type)

\* The types of the lines l, in order.
TypesOf(l) == [i \in 1..Len(l) |-> l[i].type]

\* The three alert predicates, on the inputs of the observed call (the
\* restricted hours are those of the session, 18:00 to 07:00).
LargeHolds ==
    /\ call.cfg.large_transfer_alert
    /\ (IF call.f.kind = "none" THEN 0 ELSE call.f.size)
           > call.cfg.large_transfer_threshold_mb * MB
SuspiciousHolds ==
    /\ LoweredExtension(call.path) \in Members(call.cfg.suspicious_extensions)
    /\ call.f.kind = "none" \/ call.f.size > call.cfg.alert_threshold_mb * MB
RestrictedHolds ==
    /\ call.cfg.tba_enabled
    /\ \/ call.clock.weekday \in {5, 6} /\ call.cfg.weekend_alerts
       \/ InRestrictedHours(call.clock.hour, 18, 7)

\* C28: one pass writes the large-transfer warning iff the large predicate
\* holds, the suspicious warning iff the suspicious predicate holds and the
\* after-hours warning iff the restricted-time predicate holds, each once
\* and whatever the other two are; it writes the transfer record iff it is
\* final, as its last line, after every warning.
C28_IndependentAlerts ==
    (PassReturned /\ call.cfg.restricted_start = HourText(18)
                  /\ call.cfg.restricted_end = HourText(7))
    => /\ Len(OfType(emitted, "LARGE")) = (IF LargeHolds THEN 1 ELSE 0)
       /\ Len(OfType(emitted, "SUSPICIOUS")) = (IF SuspiciousHolds THEN 1 ELSE 0)
       /\ Len(OfType(emitted, "AFTERHOURS")) = (IF RestrictedHolds THEN 1 ELSE 0)
       /\ Len(OfType(emitted, "TRANSFER")) = (IF call.final THEN 1 ELSE 0)
       /\ \A k \in 1..Len(emitted) :
             /\ emitted[k].type \in Alerts \cup {"TRANSFER"}
             /\ emitted[k].operation = call.operation
             /\ emitted[k].type = "TRANSFER" => k = Len(emitted)

\* A final pass in which all three predicates held: three warnings, then
\* the transfer record.
C28_Witness ==
    /\ PassReturned
    /\ call.final
    /\ LargeHolds /\ SuspiciousHolds /\ RestrictedHolds
    /\ TypesOf(emitted) = <<"LARGE", "SUSPICIOUS", "AFTERHOURS", "TRANSFER">>

\* C29: the suspicious predicate is true iff the lowercased extension is in
\* the suspicious set and the size is over the alert threshold (strictly)
\* or cannot be read; so for a path that does not exist it is true whenever
\* the extension is in the set, at exactly the threshold it is false, and
\* for an extension outside the set it is false.
C29_SuspiciousFailsClosed ==
    (returned /\ call.fn = "_is_suspicious_file")
    => LET inSet == LoweredExtension(call.path) \in Members(call.cfg.suspicious_extensions)
           unreadable == call.f.kind = "none" \/ ~call.sizeOk
           threshold == call.cfg.alert_threshold_mb * MB
       IN  /\ result <=> (inSet /\ (unreadable \/ call.f.size > threshold))
           /\ (inSet /\ call.f.kind = "none") => result
           /\ (inSet /\ ~unreadable /\ call.f.size = threshold) => ~result
           /\ ~inSet => ~result

\* r.DOCX does not exist and was found suspicious.
C29_Witness ==
    /\ returned
    /\ call.fn = "_is_suspicious_file"
    /\ call.path = PathOf("f1")
    /\ call.cfg.suspicious_extensions = <<ExtZip, ExtDocx>>
    /\ call.f = NoFile
    /\ result

\* C30: when the path is a regular file and reading its size fails, the
\* file is monitored iff its extension passes the include/exclude policy,
\* whatever the size bounds are; a path that is not a regular file is not
\* monitored.
C30_EligibilityFailsOpen ==
    (returned /\ call.fn = "_should_monitor_file")
    => /\ (call.f.kind = "file" /\ ~call.sizeOk) =>
              (result <=> ExtensionPasses(call.cfg, LoweredExtension(call.path)))
       /\ call.f.kind # "file" => ~result

\* A file of 500 bytes whose size could not be read was accepted under a
\* minimum of 1000 bytes.
C30_Witness ==
    /\ returned
    /\ call.fn = "_should_monitor_file"
    /\ call.f = [kind |-> "file", size |-> 500]
    /\ ~call.sizeOk
    /\ call.cfg.min_file_size_bytes = 1000
    /\ call.path = NameATxt
    /\ result

\* A pattern matches an extension exactly or as a glob.
ExactOrGlob(ext, pat) == ext = pat \/ FnMatch(ext, pat)

\* C31: when the include list is not the single wildcard, a regular file
\* within the size bounds is monitored iff its lowercased extension matches
\* at least one include pattern, exactly or as a glob, and matches no
\* exclude pattern, exactly or as a glob.
C31_IncludeExcludePatterns ==
    (MonitorDecided /\ call.cfg.include_file_extensions # << <<"*">> >>
         /\ WithinSizeBounds(call.cfg, call.f.size))
    => (result <=>
          /\ \E pat \in Members(call.cfg.include_file_extensions) :
                ExactOrGlob(LoweredExtension(call.path), pat)
          /\ \A pat \in Members(call.cfg.exclude_file_extensions) :
                ~ExactOrGlob(LoweredExtension(call.path), pat))

\* The pass has written a large-transfer warning.
LargeAlerted == \E k \in 1..Len(emitted) : emitted[k].type = "LARGE"

\* C32: a pass writes a large-transfer warning iff the feature is enabled,
\* the path exists and its size in bytes is strictly over the threshold in
\* MB; with the feature disabled, for a path that does not exist, and at
\* exactly the threshold, it writes none.  The warning carries the size.
C32_LargeTransferAlert ==
    PassReturned
    => /\ LargeAlerted <=> /\ call.cfg.large_transfer_alert
                           /\ call.f.kind # "none"
                           /\ call.f.size > call.cfg.large_transfer_threshold_mb * MB
       /\ ~call.cfg.large_transfer_alert => ~LargeAlerted
       /\ call.f.kind = "none" => ~LargeAlerted
       /\ (call.f.kind # "none" /\ call.f.size = call.cfg.large_transfer_threshold_mb * MB)
              => ~LargeAlerted
       /\ \A k \in 1..Len(emitted) :
             emitted[k].type = "LARGE" => emitted[k].file_size = call.f.size

\* One byte over a threshold of 1 MB was reported, in a pass in which no
\* other warning was due.
C32_Witness ==
    /\ PassReturned
    /\ call.cfg.large_transfer_alert
    /\ call.cfg.large_transfer_threshold_mb = 1
    /\ call.f = [kind |-> "file", size |-> MB + 1]
    /\ TypesOf(emitted) = <<"LARGE">>

\* ------------------------------------------------------------------
\* Properties of the secure log file (LogSpec)
\* ------------------------------------------------------------------
\* No logging call is under way.
Quiet == \A t \in Writers : tpc[t] = "idle"

\* The log file holds what the last append left: no other program has
\* changed it, or its change was taken up by the digest of a later append.
AsAppended == nTampers = 0 \/ lfile = sealed

\* A verification has returned; it ran from its first read to its last
\* with no logging call under way, and no file has changed since.
Verified == verdict # "none" /\ ~overlapped

\* C20: once records have been appended through the handler (with or
\* without rotations, in a new log or in the log of an earlier run) and no
\* append is under way, the hash file holds the digest of the log file's
\* content as the appends left it, and a verification run then reports
\* verified; when the content was changed from outside since the last
\* append, a verification run then reports a mismatch.
C20_DigestFollowsAppends ==
    (nAppends >= 1 /\ Quiet) =>
        /\ AsAppended => lhash = [exists |-> TRUE, digest |-> Sha256(lfile)]
        /\ (Verified /\ AsAppended) => verdict = "verified"
        /\ (Verified /\ ~AsAppended) => verdict = "mismatch"

\* After two appends and a rotation the hash file held the digest of what
\* the appends left; a byte of the file was then changed and the
\* verification run afterwards reported the mismatch.
C20_Witness ==
    /\ nAppends >= 2
    /\ Quiet
    /\ lbackups # <<>>
    /\ lhash = SaveHash(sealed)
    /\ ~AsAppended
    /\ Verified
    /\ verdict = "mismatch"

\* ------------------------------------------------------------------
\* Properties of the shared transfer log (SharedLogSpec)
\* ------------------------------------------------------------------
\* The bytes of a list of records, each followed by the terminator.
RECURSIVE RecordBytes(_)
RecordBytes(records) ==
    IF records = <<>> THEN <<>>
    ELSE Head(records) \o Terminator \o RecordBytes(Tail(records))

\* The contents of a list of files, last file first.
RECURSIVE OldestFirst(_)
OldestFirst(files) ==
    IF files = <<>> THEN <<>>
    ELSE OldestFirst(Tail(files)) \o Head(files)

\* Everything written and still kept: the rotated files, the log file and
\* the bytes not yet flushed.
KeptBytes == OldestFirst(lbackups) \o lfile \o wbuf

\* The threads inside emit.
Emitting == {t \in Writers : tpc[t] \notin {"idle", "acquire"}}

\* C21: with several reconcilers logging to the shared transfer log, the
\* kept bytes are the records written, whole, once each and in the order
\* written (the oldest ones leave with the oldest rotated file); at most
\* one thread is inside an append, and from a thread's write to its digest
\* update the file is the one it wrote: the digest saved is the digest of
\* that content.
C21_AtomicAppends ==
    /\ \E k \in 0..Len(written) :
          /\ KeptBytes = RecordBytes(SubSeq(written, k + 1, Len(written)))
          /\ Len(lbackups) < BackupCount => k = 0
    /\ Cardinality(Emitting) <= 1
    /\ \A t \in Writers :
          /\ tpc[t] \in {"hash", "hash_open", "hash_write", "release"} => lfile = tsnap[t]
          /\ tpc[t] = "release" => lhash = SaveHash(tsnap[t])

\* One thread has finished its write and digest update while the other
\* waits for the handler's lock, after an earlier append.
C21_Witness ==
    /\ tpc["r1"] = "release"
    /\ tpc["r2"] = "acquire"
    /\ Len(written) >= 3
    /\ lfile = tsnap["r1"]

\* ------------------------------------------------------------------
\* Properties of the read accessors (ReaderSpec)
\* ------------------------------------------------------------------
\* The polling thread is between the first removal and the last addition
\* of one refresh cycle.
CycleUnderWay ==
    \/ mpc \in {"poll_removed", "poll_added"}
    \/ mpc = "trigger" /\ trig.ret \in {"poll_removed", "poll_added"}

\* C23: a list returned by get_connected_devices while a refresh cycle is
\* under way holds the connected set of the start of the cycle or the one
\* of its end, never one in between; and the list a caller holds is not
\* changed by what the monitor does afterwards.
C23_SnapshotReads ==
    [][/\ (nReads' # nReads /\ CycleUnderWay) =>
              Ids(Observed') \in {Ids(cycleC), Ids(current_devices)}
       /\ (nReads' = nReads /\ nReads > 0) => Observed' = Observed]_vars

\* A caller holds a list with device A while the registry has moved on to
\* device B alone.
C23_Witness ==
    /\ nReads > 0
    /\ Ids(Observed) = {"A"}
    /\ Ids(connected_devices) = {"B"}

====
